---- MODULE Spec2Model ----
(***************************************************************************)
(* State-machine model of the workflow designer's client stores:           *)
(*   - useDesignerStore: the render graph (nodes, edges), the selection,   *)
(*     the local edit operations and the draft document calls;             *)
(*   - useDebugStore: the debug session, its event channel (WebSocket),    *)
(*     the control commands and the event reducer;                         *)
(*   - useTagStore: the per-user tag cache and its reload after a change.  *)
(* Spec, GraphSpec, AddSpec : the designer store's local graph editing.    *)
(* PanelSpec   : the debug store as the debug panel drives it, with the    *)
(*               event channel sockets and the debug backend.              *)
(* CommandSpec, StopSpec, ChannelSpec : the debug store's own operations   *)
(*               called in any order, calls and frames resolving freely.   *)
(***************************************************************************)
EXTENDS Integers, Sequences, FiniteSets, TLC

VARIABLES
    \* ---- useDesignerStore
    nodes,            \* Node[]  (render nodes, in array order)
    edges,            \* Edge[]  (render edges, in array order)
    selectedNodeId,   \* string | null
    selectedEdgeId,   \* string | null
    now,              \* Date.now(), the millisecond clock the ids are derived from
    design,           \* WorkflowDesign | null  (None or Some(document))
    designId,         \* string | null
    templates,        \* NodeTemplate[]
    loading,          \* the designer store's loading flag
    saving,           \* the designer store's saving flag
    error,            \* the designer store's error field
    \* ---- useDebugStore
    session,          \* DebugSession | null   (None or Some(session))
    ws,               \* WebSocket | null      (index into sockets, 0 for null)
    events,           \* DebugEvent[]
    highlightedNodeId,\* string | null
    dloading,         \* the debug store's loading flag
    derror,           \* the debug store's error field
    \* ---- the debug panel, the sockets, the requests in flight, the backend
    showDebugPanel,   \* WorkflowPage's showDebugPanel: the panel is mounted
    sockets,          \* every WebSocket created so far: [sid, state, inbox]
    requests,         \* backend calls awaiting their continuation
    srv,              \* the backend's debug sessions: id -> [status, at]
    emitted,          \* frames put on the event channels so far
    consoleErrors,    \* console.error lines written by ws.onmessage's catch
    \* ---- useTagStore
    tagStore,         \* [userTags, userTagsLoading, error]
    op                \* history: the operation that ran last and how it ended

docVars == <<design, designId, templates, loading, saving, error>>
designerVars == <<nodes, edges, selectedNodeId, selectedEdgeId, now, docVars>>
debugVars ==
    <<session, ws, events, highlightedNodeId, dloading, derror, showDebugPanel,
      sockets, requests, srv, emitted, consoleErrors>>
vars == <<designerVars, debugVars, tagStore, op>>

\* ------------------------------------------------------------------ values

\* JavaScript's null / undefined for string-valued fields.
NULL == "<null>"
UNDEF == "<undefined>"

\* `a ?? b`
Coalesce(a, b) == IF a \in {NULL, UNDEF} THEN b ELSE a

\* `a || b` on strings: null, undefined and '' are falsy.
OrElse(a, b) == IF a \in {NULL, UNDEF, ""} THEN b ELSE a

\* `{ ...f, ...g }`: object spread, later keys win.
Spread(f, g) ==
    [k \in (DOMAIN f) \cup (DOMAIN g) |-> IF k \in DOMAIN g THEN g[k] ELSE f[k]]

\* ------------------------------------------------------------------ bounds

MaxNodes == 2     \* longest nodes array explored
MaxEdges == 2     \* longest edges array explored
MaxTime == 1      \* the clock runs over 0..MaxTime

\* ------------------------------------------------------------------ inputs

\* Node type the callers instantiate (one of the nine of DesignerNode.type).
Types == {"end"}

\* Id a caller supplies itself: the default end node of a fresh draft.
NodeIdPool == {"end-1"}

\* Render coordinates in tenths of a unit: 1006 is 100.6.
Positions == {[x |-> 0, y |-> 0]}

\* Template literal `${prefix}-${Date.now()}`.
TimeId(prefix, t) == prefix \o "-" \o ToString(t)

\* ------------------------------------------------------------ projection

\* toFlowNode: DesignerNode -> render node.
toFlowNode(node) ==
    [id |-> node.id,
     type |-> node.type,
     position |-> [x |-> node.position.x, y |-> node.position.y],
     data |-> Spread([label |-> node.name], node.properties)]

\* toFlowEdge: DesignerEdge -> render edge.
toFlowEdge(edge) ==
    [id |-> edge.id,
     source |-> edge.source,
     target |-> edge.target,
     sourceHandle |-> edge.sourcePort,
     targetHandle |-> edge.targetPort,
     label |-> edge.label,
     type |-> "smoothstep",
     data |-> [condition |-> edge.condition, priority |-> edge.priority]]

\* ------------------------------------------------------------ graph reads

NodeIds == {nodes[i].id : i \in 1..Len(nodes)}
EdgeIds == {edges[i].id : i \in 1..Len(edges)}

\* Ids an operation may be called with: present ones and absent ones.
AnyNodeId == NodeIds \cup NodeIdPool
AnyEdgeId == EdgeIds \cup {TimeId("edge", 0)}

Incident(e, v) == e.source = v \/ e.target = v

\* An optional object argument: <<>> when the caller leaves it out.
None == <<>>
Some(v) == <<v>>

\* Display names, property bags and edge attributes the callers pass.
Names == {"Task"}
EmptyBag == [k \in {} |-> ""]
PropBags == {EmptyBag}
Handles == {NULL}

\* addNode's argument: a DesignerNode whose id is optional.
NodeArgs ==
    [id : {UNDEF} \cup NodeIdPool, type : Types, name : Names,
     position : {[x |-> 1006, y |-> 2004]}, properties : PropBags]

\* updateNode's second argument: Partial<DesignerNode>.
NodePatches ==
    [name : {"Renamed"}, position : {None}, properties : {None, Some(EmptyBag)}]

\* The renderer's Connection for a completed drag-to-connect gesture.
Connections ==
    [source : AnyNodeId \cup {NULL}, target : AnyNodeId \cup {NULL},
     sourceHandle : Handles, targetHandle : {NULL}]

\* addEdge's argument: a DesignerEdge without id.
EdgeArgs ==
    [source : AnyNodeId, target : AnyNodeId, sourcePort : {UNDEF},
     targetPort : {UNDEF}, label : {UNDEF}, condition : {UNDEF},
     priority : {UNDEF}]

\* updateEdge's second argument: Partial<DesignerEdge>.
EdgePatches == [label : {"yes"}, condition : {UNDEF}, priority : {UNDEF}]

\* The two default nodes of a fresh draft, as render nodes, and an edge
\* between them: what setNodes / setEdges are handed.
DefaultNodes ==
    << toFlowNode([id |-> "end-0", type |-> "end", name |-> "Task",
                   position |-> [x |-> 0, y |-> 0], properties |-> EmptyBag]),
       toFlowNode([id |-> "end-1", type |-> "end", name |-> "Task",
                   position |-> [x |-> 0, y |-> 0], properties |-> EmptyBag]) >>
DefaultEdges ==
    << toFlowEdge([id |-> "edge-0", source |-> "end-0", target |-> "end-1",
                   sourcePort |-> UNDEF, targetPort |-> UNDEF, label |-> UNDEF,
                   condition |-> UNDEF, priority |-> UNDEF]) >>

\* The history record: which operation ran last, whether it met its target
\* (hit), and how it ended: "returned", "thrown", or "awaiting" a backend reply.
Op(name, id, hit) == [name |-> name, hit |-> hit, result |-> "returned", value |-> UNDEF]
OpR(name, hit, result) == [name |-> name, hit |-> hit, result |-> result, value |-> UNDEF]

\* ------------------------------------------------- @xyflow/react helpers

\* connectionExists(edge, edges) of the renderer's addEdge utility.
connectionExists(edge, es) ==
    \E i \in 1..Len(es) :
        /\ es[i].source = edge.source
        /\ es[i].target = edge.target
        /\ Coalesce(es[i].sourceHandle, "") = Coalesce(edge.sourceHandle, "")
        /\ Coalesce(es[i].targetHandle, "") = Coalesce(edge.targetHandle, "")

\* addEdge(edgeParams, edges) of @xyflow/react: drops an edge with an empty
\* endpoint or an already existing connection, else appends it.
flowAddEdge(edge, es) ==
    IF edge.source = "" \/ edge.target = "" THEN es
    ELSE IF connectionExists(edge, es) THEN es
    ELSE Append(es, [edge EXCEPT
                        !.sourceHandle = IF @ = NULL THEN UNDEF ELSE @,
                        !.targetHandle = IF @ = NULL THEN UNDEF ELSE @])

\* applyNodeChanges(changes, nodes) for one change: remove or position.
applyNodeChange(change, ns) ==
    IF change.type = "remove"
    THEN SelectSeq(ns, LAMBDA n : n.id # change.id)
    ELSE [i \in 1..Len(ns) |->
            IF ns[i].id = change.id THEN [ns[i] EXCEPT !.position = change.position]
            ELSE ns[i]]

\* applyEdgeChanges(changes, edges) for one remove change.
applyEdgeChange(change, es) == SelectSeq(es, LAMBDA e : e.id # change.id)

\* ------------------------------------------- designer store: operations

Tick ==
    /\ now < MaxTime
    /\ now' = now + 1
    /\ UNCHANGED <<nodes, edges, selectedNodeId, selectedEdgeId, op>>
    /\ UNCHANGED <<docVars, debugVars, tagStore>>

setNodes(ns) ==
    /\ nodes' = ns
    /\ op' = Op("setNodes", NULL, TRUE)
    /\ UNCHANGED <<edges, selectedNodeId, selectedEdgeId, now>>
    /\ UNCHANGED <<docVars, debugVars, tagStore>>

setEdges(es) ==
    /\ edges' = es
    /\ op' = Op("setEdges", NULL, TRUE)
    /\ UNCHANGED <<nodes, selectedNodeId, selectedEdgeId, now>>
    /\ UNCHANGED <<docVars, debugVars, tagStore>>

onNodesChange(change) ==
    /\ nodes' = applyNodeChange(change, nodes)
    /\ op' = Op("onNodesChange", change.id, change.id \in NodeIds)
    /\ UNCHANGED <<edges, selectedNodeId, selectedEdgeId, now>>
    /\ UNCHANGED <<docVars, debugVars, tagStore>>

onEdgesChange(change) ==
    /\ edges' = applyEdgeChange(change, edges)
    /\ op' = Op("onEdgesChange", change.id, change.id \in EdgeIds)
    /\ UNCHANGED <<nodes, selectedNodeId, selectedEdgeId, now>>
    /\ UNCHANGED <<docVars, debugVars, tagStore>>

\* onConnect that refuses a connection leaving an end node.
onConnectValidating(connection) ==
    LET newEdge == [id |-> TimeId("edge", now),
                    type |-> "smoothstep",
                    source |-> OrElse(connection.source, ""),
                    target |-> OrElse(connection.target, ""),
                    sourceHandle |-> connection.sourceHandle,
                    targetHandle |-> connection.targetHandle,
                    label |-> UNDEF,
                    data |-> [condition |-> UNDEF, priority |-> UNDEF]]
        legal == ~\E i \in 1..Len(nodes) :
                    nodes[i].id = connection.source /\ nodes[i].type = "end"
    IN  /\ Len(edges) < MaxEdges
        /\ edges' = IF legal THEN flowAddEdge(newEdge, edges) ELSE edges
        /\ op' = Op("onConnect", newEdge.id, edges' # edges)
        /\ UNCHANGED <<nodes, selectedNodeId, selectedEdgeId, now>>
        /\ UNCHANGED <<docVars, debugVars, tagStore>>

onConnect(connection) ==
    LET newEdge == [id |-> TimeId("edge", now),
                    type |-> "smoothstep",
                    source |-> OrElse(connection.source, ""),
                    target |-> OrElse(connection.target, ""),
                    sourceHandle |-> connection.sourceHandle,
                    targetHandle |-> connection.targetHandle,
                    label |-> UNDEF,
                    data |-> [condition |-> UNDEF, priority |-> UNDEF]]
    IN  /\ Len(edges) < MaxEdges
        /\ edges' = flowAddEdge(newEdge, edges)
        /\ op' = Op("onConnect", newEdge.id, edges' # edges)
        /\ UNCHANGED <<nodes, selectedNodeId, selectedEdgeId, now>>
        /\ UNCHANGED <<docVars, debugVars, tagStore>>

addNode(node) ==
    LET id == OrElse(node.id, TimeId(node.type, now))
        flowNode == toFlowNode([node EXCEPT !.id = id])
    IN  /\ Len(nodes) < MaxNodes
        /\ nodes' = Append(nodes, flowNode)
        /\ op' = Op("addNode", id, TRUE)
        /\ UNCHANGED <<edges, selectedNodeId, selectedEdgeId, now>>
        /\ UNCHANGED <<docVars, debugVars, tagStore>>

updateNode(nodeId, data) ==
    /\ nodes' = [i \in 1..Len(nodes) |->
          IF nodes[i].id = nodeId
          THEN [nodes[i] EXCEPT
                  !.data = Spread(Spread(@, [label |-> Coalesce(data.name,
                                    IF "label" \in DOMAIN @ THEN @.label ELSE UNDEF)]),
                                  IF data.properties = None THEN EmptyBag
                                  ELSE data.properties[1]),
                  !.position = IF data.position # None
                               THEN [x |-> data.position[1].x, y |-> data.position[1].y]
                               ELSE @]
          ELSE nodes[i]]
    /\ op' = Op("updateNode", nodeId, nodeId \in NodeIds)
    /\ UNCHANGED <<edges, selectedNodeId, selectedEdgeId, now>>
    /\ UNCHANGED <<docVars, debugVars, tagStore>>

\* deleteNode with the cascade on outgoing edges only.
deleteNodeOutgoingOnly(nodeId) ==
    /\ nodes' = SelectSeq(nodes, LAMBDA node : node.id # nodeId)
    /\ edges' = SelectSeq(edges, LAMBDA edge : edge.source # nodeId)
    /\ selectedNodeId' = IF selectedNodeId = nodeId THEN NULL ELSE selectedNodeId
    /\ op' = Op("deleteNode", nodeId,
                /\ nodeId \in NodeIds
                /\ \E i \in 1..Len(edges) : Incident(edges[i], nodeId))
    /\ UNCHANGED <<selectedEdgeId, now>>
    /\ UNCHANGED <<docVars, debugVars, tagStore>>

deleteNode(nodeId) ==
    /\ nodes' = SelectSeq(nodes, LAMBDA node : node.id # nodeId)
    /\ edges' = SelectSeq(edges, LAMBDA edge : edge.source # nodeId /\ edge.target # nodeId)
    /\ selectedNodeId' = IF selectedNodeId = nodeId THEN NULL ELSE selectedNodeId
    /\ op' = Op("deleteNode", nodeId,
                /\ nodeId \in NodeIds
                /\ \E i \in 1..Len(edges) : Incident(edges[i], nodeId))
    /\ UNCHANGED <<selectedEdgeId, now>>
    /\ UNCHANGED <<docVars, debugVars, tagStore>>

addEdge(edge) ==
    LET id == TimeId("edge", now)
        flowEdge == toFlowEdge([id |-> id, source |-> edge.source,
                                target |-> edge.target, sourcePort |-> edge.sourcePort,
                                targetPort |-> edge.targetPort, label |-> edge.label,
                                condition |-> edge.condition, priority |-> edge.priority])
    IN  /\ Len(edges) < MaxEdges
        /\ edges' = Append(edges, flowEdge)
        /\ op' = Op("addEdge", id, TRUE)
        /\ UNCHANGED <<nodes, selectedNodeId, selectedEdgeId, now>>
        /\ UNCHANGED <<docVars, debugVars, tagStore>>

updateEdge(edgeId, data) ==
    /\ edges' = [i \in 1..Len(edges) |->
          IF edges[i].id = edgeId
          THEN [edges[i] EXCEPT
                  !.label = Coalesce(data.label, @),
                  !.data = Spread(@, [condition |-> Coalesce(data.condition, @.condition),
                                      priority |-> Coalesce(data.priority, @.priority)])]
          ELSE edges[i]]
    /\ op' = Op("updateEdge", edgeId, edgeId \in EdgeIds)
    /\ UNCHANGED <<nodes, selectedNodeId, selectedEdgeId, now>>
    /\ UNCHANGED <<docVars, debugVars, tagStore>>

\* deleteEdge that also clears the error message.
deleteEdgeClearsError(edgeId) ==
    /\ edges' = SelectSeq(edges, LAMBDA edge : edge.id # edgeId)
    /\ selectedEdgeId' = IF selectedEdgeId = edgeId THEN NULL ELSE selectedEdgeId
    /\ error' = NULL
    /\ op' = Op("deleteEdge", edgeId, edgeId \in EdgeIds)
    /\ UNCHANGED <<nodes, selectedNodeId, now, design, designId, templates, loading, saving>>
    /\ UNCHANGED <<debugVars, tagStore>>

deleteEdge(edgeId) ==
    /\ edges' = SelectSeq(edges, LAMBDA edge : edge.id # edgeId)
    /\ selectedEdgeId' = IF selectedEdgeId = edgeId THEN NULL ELSE selectedEdgeId
    /\ op' = Op("deleteEdge", edgeId, edgeId \in EdgeIds)
    /\ UNCHANGED <<nodes, selectedNodeId, now>>
    /\ UNCHANGED <<docVars, debugVars, tagStore>>

\* Whether anything is selected: what a select call replaces or clears.
Selected == selectedNodeId # NULL \/ selectedEdgeId # NULL

\* selectNode that leaves the edge selection alone.
selectNodeKeepsEdge(nodeId) ==
    /\ selectedNodeId' = nodeId
    /\ op' = Op("selectNode", nodeId, Selected)
    /\ UNCHANGED <<nodes, edges, selectedEdgeId, now>>
    /\ UNCHANGED <<docVars, debugVars, tagStore>>

selectNode(nodeId) ==
    /\ selectedNodeId' = nodeId
    /\ selectedEdgeId' = NULL
    /\ op' = Op("selectNode", nodeId, Selected)
    /\ UNCHANGED <<nodes, edges, now>>
    /\ UNCHANGED <<docVars, debugVars, tagStore>>

selectEdge(edgeId) ==
    /\ selectedEdgeId' = edgeId
    /\ selectedNodeId' = NULL
    /\ op' = Op("selectEdge", edgeId, Selected)
    /\ UNCHANGED <<nodes, edges, now>>
    /\ UNCHANGED <<docVars, debugVars, tagStore>>

\* ======================================================== debug store

MaxSessions == 1  \* debug sessions the backend creates
MaxPending == 1   \* backend calls in flight at once
MaxSockets == 2   \* WebSockets ever created
MaxFrames == 2    \* frames ever put on the event channels
MaxErrors == 1    \* console.error lines after which no further catalog is fetched

SessionIds == {TimeId("s", i) : i \in 1..MaxSessions}

\* The nodes the debugged instance's token visits, in order.
NodePath == <<"task-1", "task-2">>

\* A DebugSession as the store keeps it; currentToken is the token's
\* currentNodeId, NULL when the session carries no current token.
\* A fresh session's breakpoints: Record<string, Breakpoint> with no entry.
NoBreakpoints == [n \in {} |-> [nodeId |-> n, condition |-> UNDEF, enabled |-> TRUE]]

Session(id, status, token) ==
    [id |-> id, status |-> status, currentToken |-> token, breakpoints |-> NoBreakpoints,
     variables |-> EmptyBag, timeline |-> <<>>]

\* A DebugEvent; the payload's node_id is NULL for the types that carry none.
Event(type, sid, node) ==
    [type |-> type, sessionId |-> sid, payload |-> [node_id |-> node]]

\* A variable_changed DebugEvent: its payload names one key and its value.
VarEvent(sid, key, value) ==
    [type |-> "variable_changed", sessionId |-> sid,
     payload |-> [key |-> key, value |-> value]]

\* ---- frames on the wire

\* JSON.stringify of a DebugEvent, as the token sequence of its text.
ToWire(ev) == <<"{", ev.type, ev.sessionId, ev.payload.node_id, "}">>

\* A frame that is not JSON: an event's text cut off.
Garbage == <<"{", "node_entered">>

\* JSON.parse(event.data): None when it throws (SyntaxError).
JSONparse(text) ==
    IF Len(text) = 5 /\ text[1] = "{" /\ text[5] = "}"
    THEN Some(Event(text[2], text[3], text[4]))
    ELSE None

\* ---- sockets and requests

Socket(sid) == [sid |-> sid, state |-> "open", inbox |-> <<>>]

OpenSockets == {k \in 1..Len(sockets) : sockets[k].state = "open"}

Req(kind, sid) ==
    [kind |-> kind, sid |-> sid, phase |-> "sent", data |-> None, msg |-> NULL]

RemoveAt(s, i) == [j \in 1..(Len(s) - 1) |-> IF j < i THEN s[j] ELSE s[j + 1]]

Awaiting(i, kind, phase) ==
    /\ i \in 1..Len(requests)
    /\ requests[i].kind = kind
    /\ requests[i].phase = phase

\* ---- store helpers (the effect of a call on the store's fields)

\* updateSession(updates) for a status update.
updateSessionStatus(s, status) ==
    IF s # None THEN Some([s[1] EXCEPT !.status = status]) ELSE s

\* updateSession({ breakpoints }).
updateSessionBreakpoints(s, breakpoints) ==
    IF s # None THEN Some([s[1] EXCEPT !.breakpoints = breakpoints]) ELSE s

\* disconnect(): the sockets and the ws field afterwards.
disconnectSockets ==
    IF ws # 0
    THEN [sockets EXCEPT ![ws].state = IF @ = "open" THEN "closing" ELSE @]
    ELSE sockets
disconnectWs == 0

\* connect(sessionId): the sockets and the ws field afterwards.
connectSockets(ss, sessionId) == Append(ss, Socket(sessionId))
connectWs(ss, sessionId) == Len(ss) + 1

\* updateSession({ variables }).
updateSessionVariables(s, variables) ==
    IF s # None THEN Some([s[1] EXCEPT !.variables = variables]) ELSE s

\* handleEvent's switch with breakpoint_hit moving the highlight only.
reduceSessionHitKeepsStatus(s, event) ==
    CASE event.type = "session_paused" -> updateSessionStatus(s, "paused")
      [] event.type = "session_resumed" -> updateSessionStatus(s, "running")
      [] event.type = "session_completed" -> updateSessionStatus(s, "completed")
      [] event.type = "variable_changed" ->
            updateSessionVariables(s,
                Spread(IF s # None THEN s[1].variables ELSE EmptyBag,
                       [k \in {event.payload.key} |-> event.payload.value]))
      [] event.type = "error" -> updateSessionStatus(s, "error")
      [] OTHER -> s

\* handleEvent's switch with variable_changed replacing the whole mapping.
reduceSessionReplacesVariables(s, event) ==
    CASE event.type = "session_paused" -> updateSessionStatus(s, "paused")
      [] event.type = "session_resumed" -> updateSessionStatus(s, "running")
      [] event.type = "session_completed" -> updateSessionStatus(s, "completed")
      [] event.type = "breakpoint_hit" -> updateSessionStatus(s, "paused")
      [] event.type = "variable_changed" ->
            updateSessionVariables(s, [k \in {event.payload.key} |-> event.payload.value])
      [] event.type = "error" -> updateSessionStatus(s, "error")
      [] OTHER -> s

\* handleEvent's switch: the session afterwards.
reduceSession(s, event) ==
    CASE event.type = "session_paused" -> updateSessionStatus(s, "paused")
      [] event.type = "session_resumed" -> updateSessionStatus(s, "running")
      [] event.type = "session_completed" -> updateSessionStatus(s, "completed")
      [] event.type = "breakpoint_hit" -> updateSessionStatus(s, "paused")
      [] event.type = "variable_changed" ->
            updateSessionVariables(s,
                Spread(IF s # None THEN s[1].variables ELSE EmptyBag,
                       [k \in {event.payload.key} |-> event.payload.value]))
      [] event.type = "error" -> updateSessionStatus(s, "error")
      [] OTHER -> s

\* handleEvent's switch without the clearing of the highlight on completion.
reduceHighlightKeptOnCompletion(h, event) ==
    CASE event.type = "node_entered" -> event.payload.node_id
      [] event.type = "breakpoint_hit" -> event.payload.node_id
      [] OTHER -> h

\* handleEvent's switch with node_exited clearing the highlight.
reduceHighlightClearedOnExit(h, event) ==
    CASE event.type = "node_entered" -> event.payload.node_id
      [] event.type = "node_exited" -> NULL
      [] event.type = "breakpoint_hit" -> event.payload.node_id
      [] event.type = "session_completed" -> NULL
      [] OTHER -> h

\* handleEvent's switch: highlightedNodeId afterwards.
reduceHighlight(h, event) ==
    CASE event.type = "node_entered" -> event.payload.node_id
      [] event.type = "breakpoint_hit" -> event.payload.node_id
      [] event.type = "session_completed" -> NULL
      [] OTHER -> h

\* ---- store operations

\* createSession(instanceId, mode) up to its await.
createSession ==
    /\ Len(requests) < MaxPending
    /\ dloading' = TRUE
    /\ derror' = NULL
    /\ requests' = Append(requests, Req("createSession", NULL))
    /\ op' = OpR("createSession", TRUE, "awaiting")
    /\ UNCHANGED <<session, ws, events, highlightedNodeId, showDebugPanel, sockets,
                   srv, emitted, consoleErrors>>
    /\ UNCHANGED <<designerVars, tagStore>>

\* createSession after its await succeeded.
createSessionResolved(i) ==
    /\ Awaiting(i, "createSession", "ok")
    /\ session' = requests[i].data
    /\ dloading' = FALSE
    /\ requests' = RemoveAt(requests, i)
    /\ op' = OpR("createSession", TRUE, "returned")
    /\ UNCHANGED <<ws, events, highlightedNodeId, derror, showDebugPanel, sockets,
                   srv, emitted, consoleErrors>>
    /\ UNCHANGED <<designerVars, tagStore>>

\* createSession's catch block.
createSessionRejected(i) ==
    /\ Awaiting(i, "createSession", "fail")
    /\ dloading' = FALSE
    /\ derror' = requests[i].msg
    /\ requests' = RemoveAt(requests, i)
    /\ op' = OpR("createSession", TRUE, "thrown")
    /\ UNCHANGED <<session, ws, events, highlightedNodeId, showDebugPanel, sockets,
                   srv, emitted, consoleErrors>>
    /\ UNCHANGED <<designerVars, tagStore>>

setSession(s) ==
    /\ session' = s
    /\ op' = OpR("setSession", TRUE, "returned")
    /\ UNCHANGED <<ws, events, highlightedNodeId, dloading, derror, showDebugPanel,
                   sockets, requests, srv, emitted, consoleErrors>>
    /\ UNCHANGED <<designerVars, tagStore>>

connect(sessionId) ==
    /\ Len(sockets) < MaxSockets
    /\ sockets' = connectSockets(sockets, sessionId)
    /\ ws' = connectWs(sockets, sessionId)
    /\ op' = OpR("connect", TRUE, "returned")
    /\ UNCHANGED <<session, events, highlightedNodeId, dloading, derror,
                   showDebugPanel, requests, srv, emitted, consoleErrors>>
    /\ UNCHANGED <<designerVars, tagStore>>

disconnect ==
    /\ sockets' = disconnectSockets
    /\ ws' = IF ws # 0 THEN disconnectWs ELSE ws
    /\ op' = OpR("disconnect", ws # 0, "returned")
    /\ UNCHANGED <<session, events, highlightedNodeId, dloading, derror,
                   showDebugPanel, requests, srv, emitted, consoleErrors>>
    /\ UNCHANGED <<designerVars, tagStore>>

\* ws.onclose of socket k: the close that ws.close() started has completed.
onclose(k) ==
    /\ k \in 1..Len(sockets)
    /\ sockets[k].state = "closing"
    /\ sockets' = [sockets EXCEPT ![k].state = "closed", ![k].inbox = <<>>]
    /\ ws' = 0
    /\ op' = OpR("onclose", TRUE, "returned")
    /\ UNCHANGED <<session, events, highlightedNodeId, dloading, derror,
                   showDebugPanel, requests, srv, emitted, consoleErrors>>
    /\ UNCHANGED <<designerVars, tagStore>>

\* handleEvent that logs only the events it has a case for.
handleEventLogsKnown(event) ==
    /\ events' = IF event.type \in {"node_exited", "custom"} THEN events
                  ELSE Append(events, event)
    /\ session' = reduceSession(session, event)
    /\ highlightedNodeId' = reduceHighlight(highlightedNodeId, event)

\* handleEvent(event): append to the log, then the switch on event.type.
handleEvent(event) ==
    /\ events' = Append(events, event)
    /\ session' = reduceSession(session, event)
    /\ highlightedNodeId' = reduceHighlight(highlightedNodeId, event)

\* handleEvent called with an already parsed event.
handleEventCalled(event) ==
    /\ handleEvent(event)
    /\ op' = OpR("handleEvent", session # None, event.type)
    /\ UNCHANGED <<ws, dloading, derror, showDebugPanel, sockets, requests, srv, emitted,
                   consoleErrors>>
    /\ UNCHANGED <<designerVars, tagStore>>

clearEvents ==
    /\ events' = <<>>
    /\ op' = OpR("clearEvents", events # <<>>, "returned")
    /\ UNCHANGED <<session, ws, highlightedNodeId, dloading, derror, showDebugPanel,
                   sockets, requests, srv, emitted, consoleErrors>>
    /\ UNCHANGED <<designerVars, tagStore>>

\* ws.onmessage without its try/catch: the SyntaxError escapes the handler.
onmessageNoCatch(k) ==
    /\ k \in OpenSockets
    /\ sockets[k].inbox # <<>>
    /\ LET parsed == JSONparse(Head(sockets[k].inbox))
       IN  IF parsed # None
           THEN /\ handleEvent(parsed[1])
                /\ op' = OpR("handleEvent", TRUE, parsed[1].type)
           ELSE /\ op' = OpR("onmessage", FALSE, "thrown")
                /\ UNCHANGED <<session, events, highlightedNodeId>>
    /\ sockets' = [sockets EXCEPT ![k].inbox = Tail(@)]
    /\ UNCHANGED <<ws, dloading, derror, showDebugPanel, requests, srv, emitted,
                   consoleErrors>>
    /\ UNCHANGED <<designerVars, tagStore>>

\* ws.onmessage of socket k for the oldest frame of its inbox: parse it and
\* hand it to handleEvent; a frame that does not parse is logged and dropped.
onmessage(k) ==
    /\ k \in OpenSockets
    /\ sockets[k].inbox # <<>>
    /\ LET parsed == JSONparse(Head(sockets[k].inbox))
       IN  IF parsed # None
           THEN /\ handleEvent(parsed[1])
                /\ op' = OpR("handleEvent", TRUE, parsed[1].type)
                /\ UNCHANGED consoleErrors
           ELSE /\ consoleErrors' = consoleErrors + 1
                /\ op' = OpR("onmessage", FALSE, "caught")
                /\ UNCHANGED <<session, events, highlightedNodeId>>
    /\ sockets' = [sockets EXCEPT ![k].inbox = Tail(@)]
    /\ UNCHANGED <<ws, dloading, derror, showDebugPanel, requests, srv, emitted>>
    /\ UNCHANGED <<designerVars, tagStore>>

\* What a command returns when there is no session: step null, getVariables
\* {}, loadTimeline [], the others nothing.
EmptyResult(kind) ==
    CASE kind = "step" -> NULL
      [] kind = "getVariables" -> "{}"
      [] kind = "loadTimeline" -> "[]"
      [] OTHER -> UNDEF

\* A control command that also returns at once unless the session is in the
\* status the command is meant for.
commandGuardedByStatus(kind) ==
    /\ IF \/ session = None
          \/ session[1].status # (IF kind = "pause" THEN "running" ELSE "paused")
       THEN /\ op' = OpR(kind, FALSE, "returned")
            /\ UNCHANGED requests
       ELSE /\ Len(requests) < MaxPending
            /\ requests' = Append(requests, Req(kind, session[1].id))
            /\ op' = OpR(kind, TRUE, "awaiting")
    /\ UNCHANGED <<session, ws, events, highlightedNodeId, dloading, derror,
                   showDebugPanel, sockets, srv, emitted, consoleErrors>>
    /\ UNCHANGED <<designerVars, tagStore>>

\* A control command up to its await: with no session it returns at once,
\* otherwise it sends the backend call for the session's id. At most `limit`
\* calls are in flight at once.
commandWithin(kind, limit) ==
    /\ IF session = None
       THEN /\ op' = [OpR(kind, FALSE, "returned") EXCEPT !.value = EmptyResult(kind)]
            /\ UNCHANGED requests
       ELSE /\ Len(requests) < limit
            /\ requests' = Append(requests, Req(kind, session[1].id))
            /\ op' = OpR(kind, TRUE, "awaiting")
    /\ UNCHANGED <<session, ws, events, highlightedNodeId, dloading, derror,
                   showDebugPanel, sockets, srv, emitted, consoleErrors>>
    /\ UNCHANGED <<designerVars, tagStore>>

command(kind) == commandWithin(kind, MaxPending)

step == command("step")
continue == command("continue")
pause == command("pause")
stop == command("stop")

\* The catch block shared by the commands: set error, re-raise.
commandRejected(i, kind) ==
    /\ Awaiting(i, kind, "fail")
    /\ derror' = requests[i].msg
    /\ requests' = RemoveAt(requests, i)
    /\ op' = OpR(kind, TRUE, "thrown")
    /\ UNCHANGED <<session, ws, events, highlightedNodeId, dloading,
                   showDebugPanel, sockets, srv, emitted, consoleErrors>>
    /\ UNCHANGED <<designerVars, tagStore>>

\* step() after its await succeeded.
stepResolved(i) ==
    /\ Awaiting(i, "step", "ok")
    /\ session' = requests[i].data
    /\ highlightedNodeId' =
          IF requests[i].data[1].currentToken # NULL
          THEN requests[i].data[1].currentToken
          ELSE highlightedNodeId
    /\ requests' = RemoveAt(requests, i)
    /\ op' = OpR("step", TRUE, "returned")
    /\ UNCHANGED <<ws, events, dloading, derror, showDebugPanel, sockets, srv,
                   emitted, consoleErrors>>
    /\ UNCHANGED <<designerVars, tagStore>>

\* continue() leaving the status to the session_resumed event.
continueResolvedAwaitsEvent(i) ==
    /\ Awaiting(i, "continue", "ok")
    /\ requests' = RemoveAt(requests, i)
    /\ op' = OpR("continue", TRUE, "returned")
    /\ UNCHANGED <<session, ws, events, highlightedNodeId, dloading, derror,
                   showDebugPanel, sockets, srv, emitted, consoleErrors>>
    /\ UNCHANGED <<designerVars, tagStore>>

\* continue() after its await succeeded.
continueResolved(i) ==
    /\ Awaiting(i, "continue", "ok")
    /\ session' = updateSessionStatus(session, "running")
    /\ requests' = RemoveAt(requests, i)
    /\ op' = OpR("continue", TRUE, "returned")
    /\ UNCHANGED <<ws, events, highlightedNodeId, dloading, derror,
                   showDebugPanel, sockets, srv, emitted, consoleErrors>>
    /\ UNCHANGED <<designerVars, tagStore>>

\* pause() after its await succeeded.
pauseResolved(i) ==
    /\ Awaiting(i, "pause", "ok")
    /\ session' = updateSessionStatus(session, "paused")
    /\ requests' = RemoveAt(requests, i)
    /\ op' = OpR("pause", TRUE, "returned")
    /\ UNCHANGED <<ws, events, highlightedNodeId, dloading, derror,
                   showDebugPanel, sockets, srv, emitted, consoleErrors>>
    /\ UNCHANGED <<designerVars, tagStore>>

\* stop() after its await succeeded: disconnect, then drop the session.
stopResolved(i) ==
    /\ Awaiting(i, "stop", "ok")
    /\ sockets' = disconnectSockets
    /\ ws' = IF ws # 0 THEN disconnectWs ELSE ws
    /\ session' = None
    /\ highlightedNodeId' = NULL
    /\ requests' = RemoveAt(requests, i)
    /\ op' = OpR("stop", TRUE, "returned")
    /\ UNCHANGED <<events, dloading, derror, showDebugPanel, srv, emitted,
                   consoleErrors>>
    /\ UNCHANGED <<designerVars, tagStore>>

stepRejected(i) == commandRejected(i, "step")
continueRejected(i) == commandRejected(i, "continue")
pauseRejected(i) == commandRejected(i, "pause")

\* stop() tearing the session down in its catch block as well.
stopRejectedTearsDown(i) ==
    /\ Awaiting(i, "stop", "fail")
    /\ sockets' = disconnectSockets
    /\ ws' = IF ws # 0 THEN disconnectWs ELSE ws
    /\ session' = None
    /\ highlightedNodeId' = NULL
    /\ derror' = requests[i].msg
    /\ requests' = RemoveAt(requests, i)
    /\ op' = OpR("stop", TRUE, "thrown")
    /\ UNCHANGED <<events, dloading, showDebugPanel, srv, emitted, consoleErrors>>
    /\ UNCHANGED <<designerVars, tagStore>>

\* stop()'s catch block.
stopRejected(i) == commandRejected(i, "stop")

\* The debug store's reset().
resetDebug ==
    /\ sockets' = disconnectSockets
    /\ session' = None
    /\ ws' = 0
    /\ events' = <<>>
    /\ highlightedNodeId' = NULL
    /\ dloading' = FALSE
    /\ derror' = NULL
    /\ op' = OpR("reset", TRUE, "returned")
    /\ UNCHANGED <<showDebugPanel, requests, srv, emitted, consoleErrors>>
    /\ UNCHANGED <<designerVars, tagStore>>

setHighlightedNode(nodeId) ==
    /\ highlightedNodeId' = nodeId
    /\ op' = OpR("setHighlightedNode", TRUE, "returned")
    /\ UNCHANGED <<session, ws, events, dloading, derror, showDebugPanel, sockets,
                   requests, srv, emitted, consoleErrors>>
    /\ UNCHANGED <<designerVars, tagStore>>

\* ---- variables and timeline

getVariables == command("getVariables")
loadTimeline == command("loadTimeline")

\* getVariables() after its await succeeded.
getVariablesResolved(i) ==
    /\ Awaiting(i, "getVariables", "ok")
    /\ session' = updateSessionVariables(session, requests[i].data[1])
    /\ requests' = RemoveAt(requests, i)
    /\ op' = [OpR("getVariables", TRUE, "returned") EXCEPT !.value = requests[i].data[1]]
    /\ UNCHANGED <<ws, events, highlightedNodeId, dloading, derror, showDebugPanel,
                   sockets, srv, emitted, consoleErrors>>
    /\ UNCHANGED <<designerVars, tagStore>>

\* loadTimeline() after its await succeeded: updateSession({ timeline }).
loadTimelineResolved(i) ==
    /\ Awaiting(i, "loadTimeline", "ok")
    /\ session' = IF session # None
                   THEN Some([session[1] EXCEPT !.timeline = requests[i].data[1]])
                   ELSE session
    /\ requests' = RemoveAt(requests, i)
    /\ op' = [OpR("loadTimeline", TRUE, "returned") EXCEPT !.value = requests[i].data[1]]
    /\ UNCHANGED <<ws, events, highlightedNodeId, dloading, derror, showDebugPanel,
                   sockets, srv, emitted, consoleErrors>>
    /\ UNCHANGED <<designerVars, tagStore>>

\* setVariable that sends its request whether or not there is a session.
setVariableUnguarded(key, value) ==
    /\ Len(requests) < MaxPending
    /\ requests' = Append(requests,
          [kind |-> "setVariable", sid |-> IF session = None THEN UNDEF ELSE session[1].id,
           phase |-> "sent", data |-> None, msg |-> NULL, key |-> key, value |-> value,
           variables |-> IF session = None THEN EmptyBag ELSE session[1].variables])
    /\ op' = OpR("setVariable", TRUE, "awaiting")
    /\ UNCHANGED <<session, ws, events, highlightedNodeId, dloading, derror,
                   showDebugPanel, sockets, srv, emitted, consoleErrors>>
    /\ UNCHANGED <<designerVars, tagStore>>

\* setVariable(key, value) up to its await; the request keeps the arguments
\* and the variables of the session read before the await.
setVariable(key, value) ==
    /\ IF session = None
       THEN /\ op' = OpR("setVariable", FALSE, "returned")
            /\ UNCHANGED requests
       ELSE /\ Len(requests) < MaxPending
            /\ requests' = Append(requests,
                  [kind |-> "setVariable", sid |-> session[1].id, phase |-> "sent",
                   data |-> None, msg |-> NULL, key |-> key, value |-> value,
                   variables |-> session[1].variables])
            /\ op' = OpR("setVariable", TRUE, "awaiting")
    /\ UNCHANGED <<session, ws, events, highlightedNodeId, dloading, derror,
                   showDebugPanel, sockets, srv, emitted, consoleErrors>>
    /\ UNCHANGED <<designerVars, tagStore>>

\* setVariable after its await succeeded: the key is written into the
\* variables read before the await, and those merged into the current session.
setVariableResolved(i) ==
    /\ Awaiting(i, "setVariable", "ok")
    /\ session' = updateSessionVariables(session,
          Spread(requests[i].variables, [k \in {requests[i].key} |-> requests[i].value]))
    /\ requests' = RemoveAt(requests, i)
    /\ op' = OpR("setVariable", TRUE, "returned")
    /\ UNCHANGED <<ws, events, highlightedNodeId, dloading, derror, showDebugPanel,
                   sockets, srv, emitted, consoleErrors>>
    /\ UNCHANGED <<designerVars, tagStore>>

\* ---- breakpoints

\* `breakpoints[nodeId] = entry` on a copy of the map.
WithEntry(breakpoints, nodeId, entry) ==
    [n \in (DOMAIN breakpoints) \cup {nodeId} |->
        IF n = nodeId THEN entry ELSE breakpoints[n]]

\* `delete breakpoints[nodeId]` on a copy of the map.
WithoutEntry(breakpoints, nodeId) ==
    [n \in (DOMAIN breakpoints) \ {nodeId} |-> breakpoints[n]]

\* A pending addBreakpoint / removeBreakpoint call: besides the request it
\* holds the call's arguments and the session it read before the await.
BreakpointReq(kind, s, nodeId, condition) ==
    [kind |-> kind, sid |-> s.id, phase |-> "sent", data |-> None, msg |-> NULL,
     nodeId |-> nodeId, condition |-> condition, breakpoints |-> s.breakpoints]

\* addBreakpoint changing the local map before the backend answered.
addBreakpointOptimistic(nodeId, condition) ==
    /\ IF session = None
       THEN /\ op' = OpR("addBreakpoint", FALSE, "returned")
            /\ UNCHANGED <<session, requests>>
       ELSE /\ Len(requests) < MaxPending
            /\ requests' = Append(requests,
                  BreakpointReq("addBreakpoint", session[1], nodeId, condition))
            /\ session' = updateSessionBreakpoints(session,
                  WithEntry(session[1].breakpoints, nodeId,
                      [nodeId |-> nodeId, condition |-> condition, enabled |-> TRUE]))
            /\ op' = OpR("addBreakpoint", TRUE, "awaiting")
    /\ UNCHANGED <<ws, events, highlightedNodeId, dloading, derror, showDebugPanel,
                   sockets, srv, emitted, consoleErrors>>
    /\ UNCHANGED <<designerVars, tagStore>>

\* addBreakpoint(nodeId, condition) up to its await.
addBreakpoint(nodeId, condition) ==
    /\ IF session = None
       THEN /\ op' = OpR("addBreakpoint", FALSE, "returned")
            /\ UNCHANGED requests
       ELSE /\ Len(requests) < MaxPending
            /\ requests' = Append(requests,
                  BreakpointReq("addBreakpoint", session[1], nodeId, condition))
            /\ op' = OpR("addBreakpoint", TRUE, "awaiting")
    /\ UNCHANGED <<session, ws, events, highlightedNodeId, dloading, derror,
                   showDebugPanel, sockets, srv, emitted, consoleErrors>>
    /\ UNCHANGED <<designerVars, tagStore>>

\* addBreakpoint after its await succeeded: the entry is written into the
\* map read before the await, and that map merged into the current session.
addBreakpointResolved(i) ==
    /\ Awaiting(i, "addBreakpoint", "ok")
    /\ session' = updateSessionBreakpoints(session,
          WithEntry(requests[i].breakpoints, requests[i].nodeId,
              [nodeId |-> requests[i].nodeId, condition |-> requests[i].condition,
               enabled |-> TRUE]))
    /\ requests' = RemoveAt(requests, i)
    /\ op' = OpR("addBreakpoint", TRUE, "returned")
    /\ UNCHANGED <<ws, events, highlightedNodeId, dloading, derror, showDebugPanel,
                   sockets, srv, emitted, consoleErrors>>
    /\ UNCHANGED <<designerVars, tagStore>>

\* removeBreakpoint(nodeId) up to its await.
removeBreakpoint(nodeId) ==
    /\ IF session = None
       THEN /\ op' = OpR("removeBreakpoint", FALSE, "returned")
            /\ UNCHANGED requests
       ELSE /\ Len(requests) < MaxPending
            /\ requests' = Append(requests,
                  BreakpointReq("removeBreakpoint", session[1], nodeId, UNDEF))
            /\ op' = OpR("removeBreakpoint", TRUE, "awaiting")
    /\ UNCHANGED <<session, ws, events, highlightedNodeId, dloading, derror,
                   showDebugPanel, sockets, srv, emitted, consoleErrors>>
    /\ UNCHANGED <<designerVars, tagStore>>

\* removeBreakpoint after its await succeeded.
removeBreakpointResolved(i) ==
    /\ Awaiting(i, "removeBreakpoint", "ok")
    /\ session' = updateSessionBreakpoints(session,
          WithoutEntry(requests[i].breakpoints, requests[i].nodeId))
    /\ requests' = RemoveAt(requests, i)
    /\ op' = OpR("removeBreakpoint", TRUE, "returned")
    /\ UNCHANGED <<ws, events, highlightedNodeId, dloading, derror, showDebugPanel,
                   sockets, srv, emitted, consoleErrors>>
    /\ UNCHANGED <<designerVars, tagStore>>

\* addBreakpoint's and removeBreakpoint's catch blocks.
addBreakpointRejected(i) == commandRejected(i, "addBreakpoint")
removeBreakpointRejected(i) == commandRejected(i, "removeBreakpoint")

\* toggleBreakpoint creating an enabled entry for a node that has none.
toggleBreakpointCreates(nodeId) ==
    /\ IF session = None
       THEN /\ op' = OpR("toggleBreakpoint", FALSE, "returned")
            /\ UNCHANGED session
       ELSE LET breakpoints == session[1].breakpoints
            IN  /\ session' = updateSessionBreakpoints(session,
                      WithEntry(breakpoints, nodeId,
                          IF nodeId \in DOMAIN breakpoints
                          THEN [breakpoints[nodeId] EXCEPT !.enabled = ~@]
                          ELSE [nodeId |-> nodeId, condition |-> UNDEF,
                                enabled |-> TRUE]))
                /\ op' = OpR("toggleBreakpoint", nodeId \in DOMAIN breakpoints,
                             "returned")
    /\ UNCHANGED <<ws, events, highlightedNodeId, dloading, derror, showDebugPanel,
                   sockets, requests, srv, emitted, consoleErrors>>
    /\ UNCHANGED <<designerVars, tagStore>>

toggleBreakpoint(nodeId) ==
    /\ IF session = None
       THEN /\ op' = OpR("toggleBreakpoint", FALSE, "returned")
            /\ UNCHANGED session
       ELSE LET breakpoints == session[1].breakpoints
            IN  /\ session' = updateSessionBreakpoints(session,
                      IF nodeId \in DOMAIN breakpoints
                      THEN WithEntry(breakpoints, nodeId,
                               [breakpoints[nodeId] EXCEPT !.enabled = ~@])
                      ELSE breakpoints)
                /\ op' = OpR("toggleBreakpoint", nodeId \in DOMAIN breakpoints,
                             "returned")
    /\ UNCHANGED <<ws, events, highlightedNodeId, dloading, derror, showDebugPanel,
                   sockets, requests, srv, emitted, consoleErrors>>
    /\ UNCHANGED <<designerVars, tagStore>>

\* ---- the debug panel (DebugPanel.tsx) and its host page

\* Toolbar's onToggleDebug: mount or unmount the panel.
toggleDebug ==
    /\ showDebugPanel' = ~showDebugPanel
    /\ op' = OpR("toggleDebug", TRUE, "returned")
    /\ UNCHANGED <<session, ws, events, highlightedNodeId, dloading, derror,
                   sockets, requests, srv, emitted, consoleErrors>>
    /\ UNCHANGED <<designerVars, tagStore>>

\* The panel's close button (onClose): unmount the panel.
onClose ==
    /\ showDebugPanel
    /\ showDebugPanel' = FALSE
    /\ op' = OpR("onClose", TRUE, "returned")
    /\ UNCHANGED <<session, ws, events, highlightedNodeId, dloading, derror,
                   sockets, requests, srv, emitted, consoleErrors>>
    /\ UNCHANGED <<designerVars, tagStore>>

\* handleCreateSession up to its await; the start button is rendered only
\* while the store holds no session.
handleCreateSession ==
    /\ showDebugPanel
    /\ session = None
    /\ Len(requests) < MaxPending
    /\ requests' = Append(requests, Req("create", NULL))
    /\ op' = OpR("handleCreateSession", TRUE, "awaiting")
    /\ UNCHANGED <<session, ws, events, highlightedNodeId, dloading, derror,
                   showDebugPanel, sockets, srv, emitted, consoleErrors>>
    /\ UNCHANGED <<designerVars, tagStore>>

\* handleCreateSession after its await succeeded: setSession, then connect.
createResolved(i) ==
    /\ Awaiting(i, "create", "ok")
    /\ Len(sockets) < MaxSockets
    /\ session' = requests[i].data
    /\ sockets' = connectSockets(sockets, requests[i].data[1].id)
    /\ ws' = connectWs(sockets, requests[i].data[1].id)
    /\ requests' = RemoveAt(requests, i)
    /\ op' = OpR("handleCreateSession", TRUE, "returned")
    /\ UNCHANGED <<events, highlightedNodeId, dloading, derror, showDebugPanel,
                   srv, emitted, consoleErrors>>
    /\ UNCHANGED <<designerVars, tagStore>>

\* handleCreateSession's catch: an alert, nothing stored.
createRejected(i) ==
    /\ Awaiting(i, "create", "fail")
    /\ requests' = RemoveAt(requests, i)
    /\ op' = OpR("handleCreateSession", TRUE, "caught")
    /\ UNCHANGED <<session, ws, events, highlightedNodeId, dloading, derror,
                   showDebugPanel, sockets, srv, emitted, consoleErrors>>
    /\ UNCHANGED <<designerVars, tagStore>>

\* The control buttons, rendered while a session exists; step and continue
\* are disabled unless it is paused, pause unless it is running.
StatusIs(status) == session # None /\ session[1].status = status
clickStep == showDebugPanel /\ StatusIs("paused") /\ step
clickContinue == showDebugPanel /\ StatusIs("paused") /\ continue
clickPause == showDebugPanel /\ StatusIs("running") /\ pause
handleStop == showDebugPanel /\ session # None /\ stop

\* ---- the debug backend and the network

\* Put a frame on every open event channel of session sid.
Emit(ss, sid, ev) ==
    [k \in 1..Len(ss) |->
        IF ss[k].state = "open" /\ ss[k].sid = sid
        THEN [ss[k] EXCEPT !.inbox = Append(@, ToWire(ev))]
        ELSE ss[k]]

Reply(i, data) == [requests EXCEPT ![i].phase = "ok", ![i].data = data]
Refuse(i, msg) == [requests EXCEPT ![i].phase = "fail", ![i].msg = msg]

\* The request never reaches the backend or its answer is lost.
transportFails(i) ==
    /\ i \in 1..Len(requests)
    /\ requests[i].phase = "sent"
    /\ requests' = Refuse(i, "Network Error")
    /\ UNCHANGED <<session, ws, events, highlightedNodeId, dloading, derror,
                   showDebugPanel, sockets, srv, emitted, consoleErrors, op>>
    /\ UNCHANGED <<designerVars, tagStore>>

\* POST /debug/sessions: a new session, paused at the first node.
serveCreate(i) ==
    /\ Awaiting(i, "create", "sent")
    /\ \E n \in 1..MaxSessions :
          LET sid == TimeId("s", n)
          IN  /\ srv[sid].status = "none"
              /\ \A m \in 1..(n - 1) : srv[TimeId("s", m)].status # "none"
              /\ srv' = [srv EXCEPT ![sid] = [status |-> "paused", at |-> 1]]
              /\ requests' = Reply(i, Some(Session(sid, "paused", NodePath[1])))
    /\ UNCHANGED <<session, ws, events, highlightedNodeId, dloading, derror,
                   showDebugPanel, sockets, emitted, consoleErrors, op>>
    /\ UNCHANGED <<designerVars, tagStore>>

\* A command the backend refuses: the session is not in the status the
\* command needs (or is gone).
serveRefuse(i) ==
    /\ i \in 1..Len(requests)
    /\ requests[i].phase = "sent"
    /\ \/ requests[i].kind \in {"step", "continue"} /\ srv[requests[i].sid].status # "paused"
       \/ requests[i].kind = "pause" /\ srv[requests[i].sid].status # "running"
       \/ requests[i].kind = "stop" /\ srv[requests[i].sid].status \in {"none", "stopped"}
    /\ requests' = Refuse(i, "invalid session status")
    /\ UNCHANGED <<session, ws, events, highlightedNodeId, dloading, derror,
                   showDebugPanel, sockets, srv, emitted, consoleErrors, op>>
    /\ UNCHANGED <<designerVars, tagStore>>

\* POST .../step on a paused session: the token moves to the next node, or
\* the instance completes after the last one; the reply carries the session.
serveStep(i) ==
    /\ Awaiting(i, "step", "sent")
    /\ emitted < MaxFrames
    /\ LET sid == requests[i].sid
           at == srv[sid].at
       IN  /\ srv[sid].status = "paused"
           /\ IF at < Len(NodePath)
              THEN /\ srv' = [srv EXCEPT ![sid].at = at + 1]
                   /\ sockets' = Emit(sockets, sid, Event("node_entered", sid, NodePath[at + 1]))
                   /\ requests' = Reply(i, Some(Session(sid, "paused", NodePath[at + 1])))
              ELSE /\ srv' = [srv EXCEPT ![sid].status = "completed"]
                   /\ sockets' = Emit(sockets, sid, Event("session_completed", sid, NULL))
                   /\ requests' = Reply(i, Some(Session(sid, "completed", NULL)))
    /\ emitted' = emitted + 1
    /\ UNCHANGED <<session, ws, events, highlightedNodeId, dloading, derror,
                   showDebugPanel, consoleErrors, op>>
    /\ UNCHANGED <<designerVars, tagStore>>

\* POST .../continue on a paused session.
serveContinue(i) ==
    /\ Awaiting(i, "continue", "sent")
    /\ emitted < MaxFrames
    /\ LET sid == requests[i].sid
       IN  /\ srv[sid].status = "paused"
           /\ srv' = [srv EXCEPT ![sid].status = "running"]
           /\ sockets' = Emit(sockets, sid, Event("session_resumed", sid, NULL))
    /\ requests' = Reply(i, None)
    /\ emitted' = emitted + 1
    /\ UNCHANGED <<session, ws, events, highlightedNodeId, dloading, derror,
                   showDebugPanel, consoleErrors, op>>
    /\ UNCHANGED <<designerVars, tagStore>>

\* POST .../pause on a running session.
servePause(i) ==
    /\ Awaiting(i, "pause", "sent")
    /\ emitted < MaxFrames
    /\ LET sid == requests[i].sid
       IN  /\ srv[sid].status = "running"
           /\ srv' = [srv EXCEPT ![sid].status = "paused"]
           /\ sockets' = Emit(sockets, sid, Event("session_paused", sid, NULL))
    /\ requests' = Reply(i, None)
    /\ emitted' = emitted + 1
    /\ UNCHANGED <<session, ws, events, highlightedNodeId, dloading, derror,
                   showDebugPanel, consoleErrors, op>>
    /\ UNCHANGED <<designerVars, tagStore>>

\* POST .../stop on a session the backend still holds.
serveStop(i) ==
    /\ Awaiting(i, "stop", "sent")
    /\ srv[requests[i].sid].status \notin {"none", "stopped"}
    /\ srv' = [srv EXCEPT ![requests[i].sid].status = "stopped"]
    /\ requests' = Reply(i, None)
    /\ UNCHANGED <<session, ws, events, highlightedNodeId, dloading, derror,
                   showDebugPanel, sockets, emitted, consoleErrors, op>>
    /\ UNCHANGED <<designerVars, tagStore>>

\* A running instance reaches a breakpoint, completes, or fails.
serverRuns(sid, outcome) ==
    /\ srv[sid].status = "running"
    /\ emitted < MaxFrames
    /\ CASE outcome = "breakpoint" ->
              /\ srv[sid].at < Len(NodePath)
              /\ srv' = [srv EXCEPT ![sid].status = "paused", ![sid].at = @ + 1]
              /\ sockets' = Emit(sockets, sid,
                                 Event("breakpoint_hit", sid, NodePath[srv[sid].at + 1]))
         [] outcome = "completed" ->
              /\ srv' = [srv EXCEPT ![sid].status = "completed"]
              /\ sockets' = Emit(sockets, sid, Event("session_completed", sid, NULL))
         [] OTHER ->
              /\ srv' = [srv EXCEPT ![sid].status = "error"]
              /\ sockets' = Emit(sockets, sid, Event("error", sid, NULL))
    /\ emitted' = emitted + 1
    /\ UNCHANGED <<session, ws, events, highlightedNodeId, dloading, derror,
                   showDebugPanel, requests, consoleErrors, op>>
    /\ UNCHANGED <<designerVars, tagStore>>

\* The frames an event channel may be handed: the text of an event of one of
\* these types, or text that is not JSON.
Frames ==
    {Garbage} \cup
    {ToWire(Event("session_resumed", "s-1", NULL))} \cup
    {ToWire(Event("node_entered", "s-1", NodePath[2]))}

\* A frame arrives on the open socket k.
frameArrives(k, frame) ==
    /\ k \in OpenSockets
    /\ emitted < MaxFrames
    /\ sockets' = [sockets EXCEPT ![k].inbox = Append(@, frame)]
    /\ emitted' = emitted + 1
    /\ UNCHANGED <<session, ws, events, highlightedNodeId, dloading, derror,
                   showDebugPanel, requests, srv, consoleErrors, op>>
    /\ UNCHANGED <<designerVars, tagStore>>

\* =========================== designer store: documents and the backend

\* Math.round on a coordinate held in tenths: the nearest integer, a half
\* going up; the result is in tenths as well.
MathRound(x) == ((x + 5) \div 10) * 10

\* One element of toDesignerNodes(): render node -> DesignerNode.
toDesignerNode(node) ==
    [id |-> node.id,
     type |-> OrElse(node.type, "default"),
     name |-> IF "label" \in DOMAIN node.data THEN OrElse(node.data.label, "") ELSE "",
     position |-> [x |-> MathRound(node.position.x), y |-> MathRound(node.position.y)],
     properties |-> [k \in (DOMAIN node.data) \ {"label"} |-> node.data[k]]]

\* One element of toDesignerEdges(): render edge -> DesignerEdge.
toDesignerEdge(edge) ==
    [id |-> edge.id,
     source |-> edge.source,
     target |-> edge.target,
     sourcePort |-> Coalesce(edge.sourceHandle, UNDEF),
     targetPort |-> Coalesce(edge.targetHandle, UNDEF),
     label |-> OrElse(edge.label, UNDEF),
     condition |-> edge.data.condition,
     priority |-> edge.data.priority]

\* DesignerNodes a document holds: with and without a property, at whole and
\* at fractional coordinates, with and without a port configuration.
PlainNode ==
    [id |-> "start-1", type |-> "start", name |-> "Start",
     position |-> [x |-> 1006, y |-> 2004], properties |-> [assignee |-> "bob"]]
PortedNode ==
    [id |-> "end-1", type |-> "end", name |-> "",
     position |-> [x |-> -15, y |-> 30], properties |-> EmptyBag,
     ports |-> [inputs |-> <<"in">>, outputs |-> <<>>]]
DocEdge ==
    [id |-> "edge-9", source |-> "start-1", target |-> "end-1", sourcePort |-> UNDEF,
     targetPort |-> UNDEF, label |-> "yes", condition |-> UNDEF, priority |-> UNDEF]

\* WorkflowDesigns the backend answers with.
Designs ==
    {[id |-> "d-1", nodes |-> <<PlainNode>>, edges |-> <<>>],
     [id |-> "d-1", nodes |-> <<PlainNode, PortedNode>>, edges |-> <<DocEdge>>]}

DesignIds == {"d-1"}

\* DesignerEdges a document holds: every optional field set, none set, and a
\* label that is the empty string.
FullEdge ==
    [id |-> "edge-1", source |-> "start-1", target |-> "end-1", sourcePort |-> "out-1",
     targetPort |-> "in", label |-> "yes", condition |-> "x > 1", priority |-> "1"]
BareEdge ==
    [id |-> "edge-2", source |-> "start-1", target |-> "end-1", sourcePort |-> UNDEF,
     targetPort |-> UNDEF, label |-> UNDEF, condition |-> UNDEF, priority |-> UNDEF]
UnlabelledEdge ==
    [id |-> "edge-3", source |-> "start-1", target |-> "end-1", sourcePort |-> "",
     targetPort |-> UNDEF, label |-> "", condition |-> UNDEF, priority |-> "0"]

\* WorkflowDesigns that differ in their edges.
EdgeDesigns ==
    {[id |-> "d-1", nodes |-> <<PlainNode>>, edges |-> <<>>],
     [id |-> "d-1", nodes |-> <<PlainNode, PortedNode>>, edges |-> <<FullEdge, BareEdge>>],
     [id |-> "d-1", nodes |-> <<PlainNode, PortedNode>>, edges |-> <<UnlabelledEdge>>]}

\* The debug store's fields and the debug environment other than the calls in
\* flight.
debugRest ==
    <<session, ws, events, highlightedNodeId, dloading, derror, showDebugPanel,
      sockets, srv, emitted, consoleErrors>>

\* A pending designer api call: its kind, the draft id and the body sent.
DocReq(kind, id, payload) ==
    [kind |-> kind, sid |-> id, phase |-> "sent", data |-> None, msg |-> NULL,
     payload |-> payload]

\* A designer api call resolves with the body of the response.
docCallResolves(i, data) ==
    /\ i \in 1..Len(requests)
    /\ requests[i].phase = "sent"
    /\ requests[i].kind \in {"getDraft", "updateDraft", "validateDesign", "publishDesign",
                              "createDraft", "getTemplates"}
    /\ requests' = Reply(i, Some(data))
    /\ UNCHANGED <<nodes, edges, selectedNodeId, selectedEdgeId, now, docVars>>
    /\ UNCHANGED <<debugRest, tagStore, op>>

\* loadDraft(id) up to its await.
loadDraft(id) ==
    /\ Len(requests) < MaxPending
    /\ loading' = TRUE
    /\ error' = NULL
    /\ requests' = Append(requests, DocReq("getDraft", id, None))
    /\ op' = OpR("loadDraft", TRUE, "awaiting")
    /\ UNCHANGED <<nodes, edges, selectedNodeId, selectedEdgeId, now, design, designId,
                   templates, saving>>
    /\ UNCHANGED <<debugRest, tagStore>>

\* loadDraft after its await succeeded.
loadDraftResolved(i) ==
    /\ Awaiting(i, "getDraft", "ok")
    /\ LET d == requests[i].data[1]
       IN  /\ nodes' = [j \in 1..Len(d.nodes) |-> toFlowNode(d.nodes[j])]
           /\ edges' = [j \in 1..Len(d.edges) |-> toFlowEdge(d.edges[j])]
           /\ design' = Some(d)
    /\ designId' = requests[i].sid
    /\ loading' = FALSE
    /\ requests' = RemoveAt(requests, i)
    /\ op' = OpR("loadDraft", TRUE, "returned")
    /\ UNCHANGED <<selectedNodeId, selectedEdgeId, now, templates, saving, error>>
    /\ UNCHANGED <<debugRest, tagStore>>

\* loadDraft's catch block emptying the graph as well.
loadDraftRejectedClearsGraph(i) ==
    /\ Awaiting(i, "getDraft", "fail")
    /\ nodes' = <<>>
    /\ edges' = <<>>
    /\ loading' = FALSE
    /\ error' = requests[i].msg
    /\ requests' = RemoveAt(requests, i)
    /\ op' = OpR("loadDraft", TRUE, "thrown")
    /\ UNCHANGED <<selectedNodeId, selectedEdgeId, now, design, designId, templates, saving>>
    /\ UNCHANGED <<debugRest, tagStore>>

\* loadDraft's catch block.
loadDraftRejected(i) ==
    /\ Awaiting(i, "getDraft", "fail")
    /\ loading' = FALSE
    /\ error' = requests[i].msg
    /\ requests' = RemoveAt(requests, i)
    /\ op' = OpR("loadDraft", TRUE, "thrown")
    /\ UNCHANGED <<nodes, edges, selectedNodeId, selectedEdgeId, now, design, designId,
                   templates, saving>>
    /\ UNCHANGED <<debugRest, tagStore>>

\* createDraft(name, description) up to its await.
createDraft ==
    /\ Len(requests) < MaxPending
    /\ loading' = TRUE
    /\ error' = NULL
    /\ requests' = Append(requests, DocReq("createDraft", NULL, None))
    /\ op' = OpR("createDraft", TRUE, "awaiting")
    /\ UNCHANGED <<nodes, edges, selectedNodeId, selectedEdgeId, now, design, designId,
                   templates, saving>>
    /\ UNCHANGED <<debugRest, tagStore>>

\* createDraft after its await succeeded.
createDraftResolved(i) ==
    /\ Awaiting(i, "createDraft", "ok")
    /\ LET d == requests[i].data[1]
       IN  /\ nodes' = [j \in 1..Len(d.nodes) |-> toFlowNode(d.nodes[j])]
           /\ edges' = [j \in 1..Len(d.edges) |-> toFlowEdge(d.edges[j])]
           /\ design' = Some(d)
           /\ designId' = d.id
    /\ loading' = FALSE
    /\ requests' = RemoveAt(requests, i)
    /\ op' = OpR("createDraft", TRUE, "returned")
    /\ UNCHANGED <<selectedNodeId, selectedEdgeId, now, templates, saving, error>>
    /\ UNCHANGED <<debugRest, tagStore>>

\* createDraft's catch block.
createDraftRejected(i) ==
    /\ Awaiting(i, "createDraft", "fail")
    /\ loading' = FALSE
    /\ error' = requests[i].msg
    /\ requests' = RemoveAt(requests, i)
    /\ op' = OpR("createDraft", TRUE, "thrown")
    /\ UNCHANGED <<nodes, edges, selectedNodeId, selectedEdgeId, now, design, designId,
                   templates, saving>>
    /\ UNCHANGED <<debugRest, tagStore>>

\* A NodeTemplate, by its type and category.
Template(type, category) == [type |-> type, category |-> category]

\* The built-in catalog loadTemplates falls back to.
FallbackTemplates ==
    <<Template("start", "control"), Template("end", "control"),
      Template("user_task", "task"), Template("service_task", "task"),
      Template("exclusive_gateway", "gateway")>>

\* Catalogs the backend answers with.
Catalogs == {<<>>, <<Template("start", "control"), Template("script_task", "task")>>}

\* loadTemplates() up to its await.
loadTemplates ==
    /\ Len(requests) < MaxPending
    /\ requests' = Append(requests, DocReq("getTemplates", NULL, None))
    /\ op' = OpR("loadTemplates", TRUE, "awaiting")
    /\ UNCHANGED <<designerVars, tagStore>>
    /\ UNCHANGED <<debugRest, tagStore>>

\* loadTemplates that reports the failure the way the other loaders do.
loadTemplatesRaising(i) ==
    /\ i \in 1..Len(requests)
    /\ requests[i].kind = "getTemplates"
    /\ requests[i].phase \in {"ok", "fail"}
    /\ IF requests[i].phase = "ok"
       THEN /\ templates' = requests[i].data[1]
            /\ op' = OpR("loadTemplates", TRUE, "returned")
            /\ UNCHANGED <<error, consoleErrors>>
       ELSE /\ error' = requests[i].msg
            /\ op' = OpR("loadTemplates", TRUE, "thrown")
            /\ UNCHANGED <<templates, consoleErrors>>
    /\ requests' = RemoveAt(requests, i)
    /\ UNCHANGED <<nodes, edges, selectedNodeId, selectedEdgeId, now, design, designId,
                   loading, saving>>
    /\ UNCHANGED <<session, ws, events, highlightedNodeId, dloading, derror,
                   showDebugPanel, sockets, srv, emitted, tagStore>>

\* loadTemplates after its await: the fetched catalog, or in the catch block a
\* console.error line and the built-in catalog.
loadTemplatesSettled(i) ==
    /\ i \in 1..Len(requests)
    /\ requests[i].kind = "getTemplates"
    /\ requests[i].phase \in {"ok", "fail"}
    /\ IF requests[i].phase = "ok"
       THEN /\ templates' = requests[i].data[1]
            /\ UNCHANGED consoleErrors
       ELSE /\ templates' = FallbackTemplates
            /\ consoleErrors' = consoleErrors + 1
    /\ requests' = RemoveAt(requests, i)
    /\ op' = OpR("loadTemplates", TRUE, "returned")
    /\ UNCHANGED <<nodes, edges, selectedNodeId, selectedEdgeId, now, design, designId,
                   loading, saving, error>>
    /\ UNCHANGED <<session, ws, events, highlightedNodeId, dloading, derror,
                   showDebugPanel, sockets, srv, emitted, tagStore>>

\* saveDraft up to its await, the body built by truncating the coordinates.
saveDraftTruncating ==
    IF designId \in {NULL, UNDEF, ""}
    THEN /\ op' = OpR("saveDraft", FALSE, "returned")
         /\ UNCHANGED <<designerVars, debugVars, tagStore>>
    ELSE /\ Len(requests) < MaxPending
         /\ saving' = TRUE
         /\ error' = NULL
         /\ requests' = Append(requests,
               DocReq("updateDraft", designId,
                      Some([nodes |-> [i \in 1..Len(nodes) |->
                                         [toDesignerNode(nodes[i]) EXCEPT
                                            !.position =
                                               [x |-> (nodes[i].position.x \div 10) * 10,
                                                y |-> (nodes[i].position.y \div 10) * 10]]],
                            edges |-> [i \in 1..Len(edges) |-> toDesignerEdge(edges[i])]])))
         /\ op' = OpR("saveDraft", TRUE, "awaiting")
         /\ UNCHANGED <<nodes, edges, selectedNodeId, selectedEdgeId, now, design, designId,
                        templates, loading>>
         /\ UNCHANGED <<debugRest, tagStore>>

\* saveDraft up to its await: nothing without an active document, else the
\* render graph converted and sent.
saveDraft ==
    IF designId \in {NULL, UNDEF, ""}
    THEN /\ op' = OpR("saveDraft", FALSE, "returned")
         /\ UNCHANGED <<designerVars, debugVars, tagStore>>
    ELSE /\ Len(requests) < MaxPending
         /\ saving' = TRUE
         /\ error' = NULL
         /\ requests' = Append(requests,
               DocReq("updateDraft", designId,
                      Some([nodes |-> [i \in 1..Len(nodes) |-> toDesignerNode(nodes[i])],
                            edges |-> [i \in 1..Len(edges) |-> toDesignerEdge(edges[i])]])))
         /\ op' = OpR("saveDraft", TRUE, "awaiting")
         /\ UNCHANGED <<nodes, edges, selectedNodeId, selectedEdgeId, now, design, designId,
                        templates, loading>>
         /\ UNCHANGED <<debugRest, tagStore>>

saveDraftResolved(i) ==
    /\ Awaiting(i, "updateDraft", "ok")
    /\ design' = Some(requests[i].data[1])
    /\ saving' = FALSE
    /\ requests' = RemoveAt(requests, i)
    /\ op' = OpR("saveDraft", TRUE, "returned")
    /\ UNCHANGED <<nodes, edges, selectedNodeId, selectedEdgeId, now, designId, templates,
                   loading, error>>
    /\ UNCHANGED <<debugRest, tagStore>>

\* saveDraft's catch block leaving the saving flag up.
saveDraftRejectedKeepsSaving(i) ==
    /\ Awaiting(i, "updateDraft", "fail")
    /\ error' = requests[i].msg
    /\ requests' = RemoveAt(requests, i)
    /\ op' = OpR("saveDraft", TRUE, "thrown")
    /\ UNCHANGED <<nodes, edges, selectedNodeId, selectedEdgeId, now, design, designId,
                   templates, loading, saving>>
    /\ UNCHANGED <<debugRest, tagStore>>

saveDraftRejected(i) ==
    /\ Awaiting(i, "updateDraft", "fail")
    /\ saving' = FALSE
    /\ error' = requests[i].msg
    /\ requests' = RemoveAt(requests, i)
    /\ op' = OpR("saveDraft", TRUE, "thrown")
    /\ UNCHANGED <<nodes, edges, selectedNodeId, selectedEdgeId, now, design, designId,
                   templates, loading>>
    /\ UNCHANGED <<debugRest, tagStore>>

\* validate / publish that call the backend whatever designId holds.
delegateUnguarded(name, kind) ==
    /\ Len(requests) < MaxPending
    /\ requests' = Append(requests, DocReq(kind, designId, None))
    /\ op' = OpR(name, TRUE, "awaiting")
    /\ UNCHANGED <<designerVars, tagStore>>
    /\ UNCHANGED <<debugRest, tagStore>>

\* validate / publish up to the await: `throw new Error('No design loaded')`
\* without an active document, else the call to the backend.
delegate(name, kind) ==
    IF designId \in {NULL, UNDEF, ""}
    THEN /\ op' = OpR(name, FALSE, "thrown")
         /\ UNCHANGED <<designerVars, debugVars, tagStore>>
    ELSE /\ Len(requests) < MaxPending
         /\ requests' = Append(requests, DocReq(kind, designId, None))
         /\ op' = OpR(name, TRUE, "awaiting")
         /\ UNCHANGED <<designerVars, tagStore>>
         /\ UNCHANGED <<debugRest, tagStore>>

validate == delegate("validate", "validateDesign")

publish == delegate("publish", "publishDesign")

\* The promise of validate / publish settles: the caller gets the result or the
\* rejection, the store is not written.
delegateSettled(i) ==
    /\ i \in 1..Len(requests)
    /\ requests[i].kind \in {"validateDesign", "publishDesign"}
    /\ requests[i].phase \in {"ok", "fail"}
    /\ requests' = RemoveAt(requests, i)
    /\ op' = OpR(IF requests[i].kind = "validateDesign" THEN "validate" ELSE "publish", TRUE,
                 IF requests[i].phase = "ok" THEN "returned" ELSE "thrown")
    /\ UNCHANGED <<designerVars, tagStore>>
    /\ UNCHANGED <<debugRest, tagStore>>

\* The designer store's reset().
reset ==
    /\ design' = None
    /\ designId' = NULL
    /\ nodes' = <<>>
    /\ edges' = <<>>
    /\ selectedNodeId' = NULL
    /\ selectedEdgeId' = NULL
    /\ error' = NULL
    /\ op' = Op("reset", NULL, TRUE)
    /\ UNCHANGED <<now, templates, loading, saving>>
    /\ UNCHANGED <<debugVars, tagStore>>

\* ------------------------------------------------------------ tag store

\* The users whose tags are loaded, and the tag lists the backend answers with.
TagUsers == {1, 2}
TagLists == {<<>>, <<"grade">>, <<"grade", "role">>}

\* A pending tag api call for a user, and the store operation it belongs to.
TagReq(kind, userId, caller) ==
    [kind |-> kind, sid |-> userId, phase |-> "sent", data |-> None, msg |-> NULL,
     caller |-> caller]

\* A tag api call resolves: getUserTags with a tag list, the others with no body.
tagCallResolves(i, data) ==
    /\ i \in 1..Len(requests)
    /\ requests[i].phase = "sent"
    /\ requests[i].kind \in {"getUserTags", "assignUserTag", "removeUserTag"}
    /\ requests[i].kind = "getUserTags" <=> data # None
    /\ requests' = Reply(i, data)
    /\ UNCHANGED <<designerVars, debugRest, tagStore, op>>

\* loadUserTags(userId) up to its await.
loadUserTags(userId) ==
    /\ Len(requests) < MaxPending
    /\ tagStore' = [tagStore EXCEPT !.userTagsLoading = TRUE, !.error = NULL]
    /\ requests' = Append(requests, TagReq("getUserTags", userId, "loadUserTags"))
    /\ op' = OpR("loadUserTags", TRUE, "awaiting")
    /\ UNCHANGED <<designerVars, debugRest>>

\* loadUserTags after its await merging the fetched tags into the cached ones.
loadUserTagsMerging(i) ==
    /\ i \in 1..Len(requests)
    /\ requests[i].kind = "getUserTags"
    /\ requests[i].phase \in {"ok", "fail"}
    /\ LET u == requests[i].sid
           old == IF u \in DOMAIN tagStore.userTags THEN tagStore.userTags[u] ELSE <<>>
       IN  tagStore' =
              IF requests[i].phase = "ok"
              THEN [tagStore EXCEPT
                      !.userTags = Spread(@, [k \in {u} |-> old \o requests[i].data[1]]),
                      !.userTagsLoading = FALSE]
              ELSE [tagStore EXCEPT !.userTagsLoading = FALSE, !.error = requests[i].msg]
    /\ requests' = RemoveAt(requests, i)
    /\ op' = OpR(requests[i].caller, TRUE, "returned")
    /\ UNCHANGED <<designerVars, debugRest>>

\* loadUserTags after its await: the user's entry replaced by the fetched tags,
\* or in the catch block the error set; the failure is not re-raised, so an
\* assignTag / removeTag awaiting the reload returns either way.
loadUserTagsSettled(i) ==
    /\ i \in 1..Len(requests)
    /\ requests[i].kind = "getUserTags"
    /\ requests[i].phase \in {"ok", "fail"}
    /\ tagStore' =
          IF requests[i].phase = "ok"
          THEN [tagStore EXCEPT
                  !.userTags = Spread(@, [k \in {requests[i].sid} |-> requests[i].data[1]]),
                  !.userTagsLoading = FALSE]
          ELSE [tagStore EXCEPT !.userTagsLoading = FALSE, !.error = requests[i].msg]
    /\ requests' = RemoveAt(requests, i)
    /\ op' = OpR(requests[i].caller, TRUE, "returned")
    /\ UNCHANGED <<designerVars, debugRest>>

\* assignTag / removeTag up to the await of the backend call.
tagChange(name, kind, userId) ==
    /\ Len(requests) < MaxPending
    /\ tagStore' = [tagStore EXCEPT !.error = NULL]
    /\ requests' = Append(requests, TagReq(kind, userId, name))
    /\ op' = OpR(name, TRUE, "awaiting")
    /\ UNCHANGED <<designerVars, debugRest>>

assignTag(userId) == tagChange("assignTag", "assignUserTag", userId)

removeTag(userId) == tagChange("removeTag", "removeUserTag", userId)

\* assignTag / removeTag after the backend call succeeded: the call of
\* get().loadUserTags(userId) up to its await.
tagChangeResolved(i) ==
    /\ i \in 1..Len(requests)
    /\ requests[i].kind \in {"assignUserTag", "removeUserTag"}
    /\ requests[i].phase = "ok"
    /\ tagStore' = [tagStore EXCEPT !.userTagsLoading = TRUE, !.error = NULL]
    /\ requests' = [requests EXCEPT
                      ![i] = TagReq("getUserTags", requests[i].sid, requests[i].caller)]
    /\ op' = OpR(requests[i].caller, TRUE, "reloading")
    /\ UNCHANGED <<designerVars, debugRest>>

\* assignTag / removeTag's catch block.
tagChangeRejected(i) ==
    /\ i \in 1..Len(requests)
    /\ requests[i].kind \in {"assignUserTag", "removeUserTag"}
    /\ requests[i].phase = "fail"
    /\ tagStore' = [tagStore EXCEPT !.error = requests[i].msg]
    /\ requests' = RemoveAt(requests, i)
    /\ op' = OpR(requests[i].caller, TRUE, "thrown")
    /\ UNCHANGED <<designerVars, debugRest>>

\* ------------------------------------------------------- specification

Init ==
    /\ nodes = <<>>
    /\ edges = <<>>
    /\ selectedNodeId = NULL
    /\ selectedEdgeId = NULL
    /\ now = 0
    /\ design = None
    /\ designId = NULL
    /\ templates = <<>>
    /\ loading = FALSE
    /\ saving = FALSE
    /\ error = NULL
    /\ session = None
    /\ ws = 0
    /\ events = <<>>
    /\ highlightedNodeId = NULL
    /\ dloading = FALSE
    /\ derror = NULL
    /\ showDebugPanel = FALSE
    /\ sockets = <<>>
    /\ requests = <<>>
    /\ srv = [id \in SessionIds |-> [status |-> "none", at |-> 0]]
    /\ emitted = 0
    /\ consoleErrors = 0
    /\ tagStore = [userTags |-> EmptyBag, userTagsLoading |-> FALSE, error |-> NULL]
    /\ op = Op("init", NULL, FALSE)

Next ==
    \/ Tick
    \/ \E ns \in {<<>>, DefaultNodes} : setNodes(ns)
    \/ \E es \in {<<>>, DefaultEdges} : setEdges(es)
    \/ \E id \in AnyNodeId : onNodesChange([type |-> "remove", id |-> id])
    \/ \E id \in AnyNodeId, p \in Positions :
          onNodesChange([type |-> "position", id |-> id, position |-> p])
    \/ \E id \in AnyEdgeId : onEdgesChange([type |-> "remove", id |-> id])
    \/ \E c \in Connections : onConnect(c)
    \/ \E n \in NodeArgs : addNode(n)
    \/ \E id \in AnyNodeId, d \in NodePatches : updateNode(id, d)
    \/ \E id \in AnyNodeId : deleteNode(id)
    \/ \E e \in EdgeArgs : addEdge(e)
    \/ \E id \in AnyEdgeId, d \in EdgePatches : updateEdge(id, d)
    \/ \E id \in AnyEdgeId : deleteEdge(id)
    \/ \E id \in AnyNodeId \cup {NULL} : selectNode(id)
    \/ \E id \in AnyEdgeId \cup {NULL} : selectEdge(id)

Spec == Init /\ [][Next]_vars

\* Graphs built and taken apart node by node and edge by edge.
GraphNext ==
    \/ Tick
    \/ \E ns \in {<<>>, DefaultNodes} : setNodes(ns)
    \/ \E es \in {<<>>, DefaultEdges} : setEdges(es)
    \/ \E c \in Connections : onConnect(c)
    \/ \E n \in NodeArgs : addNode(n)
    \/ \E e \in EdgeArgs : addEdge(e)
    \/ \E id \in AnyNodeId : deleteNode(id)

GraphSpec == Init /\ [][GraphNext]_vars

\* Connections drawn between nodes that are in the graph or not, on graphs
\* with and without edges.
ConnectNext ==
    \/ Tick
    \/ \E ns \in {<<>>, DefaultNodes} : setNodes(ns)
    \/ \E es \in {<<>>, DefaultEdges} : setEdges(es)
    \/ \E c \in Connections : onConnect(c)

ConnectSpec == Init /\ [][ConnectNext]_vars

\* The designer store's three id-generating operations alone.
AddNext ==
    \/ Tick
    \/ \E c \in Connections : onConnect(c)
    \/ \E n \in NodeArgs : addNode(n)
    \/ \E e \in EdgeArgs : addEdge(e)

AddSpec == Init /\ [][AddNext]_vars

\* The continuations of the backend calls, the socket callbacks and the
\* backend: what runs without any caller's doing.
Async ==
    \/ \E i \in 1..MaxPending : stepResolved(i)
    \/ \E i \in 1..MaxPending : continueResolved(i)
    \/ \E i \in 1..MaxPending : pauseResolved(i)
    \/ \E i \in 1..MaxPending : stopResolved(i)
    \/ \E i \in 1..MaxPending : stepRejected(i)
    \/ \E i \in 1..MaxPending : continueRejected(i)
    \/ \E i \in 1..MaxPending : pauseRejected(i)
    \/ \E i \in 1..MaxPending : stopRejected(i)
    \/ \E i \in 1..MaxPending : createResolved(i)
    \/ \E i \in 1..MaxPending : createRejected(i)
    \/ \E k \in 1..MaxSockets : onmessage(k)
    \/ \E k \in 1..MaxSockets : onclose(k)
    \/ \E i \in 1..MaxPending : transportFails(i)
    \/ \E i \in 1..MaxPending : serveCreate(i)
    \/ \E i \in 1..MaxPending : serveRefuse(i)
    \/ \E i \in 1..MaxPending : serveStep(i)
    \/ \E i \in 1..MaxPending : serveContinue(i)
    \/ \E i \in 1..MaxPending : servePause(i)
    \/ \E i \in 1..MaxPending : serveStop(i)
    \/ \E sid \in SessionIds, o \in {"breakpoint", "completed", "error"} : serverRuns(sid, o)

\* The debug store as the debug panel drives it.
PanelNext ==
    \/ toggleDebug
    \/ onClose
    \/ handleCreateSession
    \/ clickStep
    \/ clickContinue
    \/ clickPause
    \/ handleStop
    \/ Async

PanelSpec == Init /\ [][PanelNext]_vars

\* Selections made, replaced and cleared while a draft is loaded, its nodes
\* and edges are deleted and the store is reset.
SelectNext ==
    \/ \E id \in DesignIds : loadDraft(id)
    \/ \E i \in 1..MaxPending, d \in Designs : docCallResolves(i, d)
    \/ \E i \in 1..MaxPending : transportFails(i)
    \/ \E i \in 1..MaxPending : loadDraftResolved(i)
    \/ \E i \in 1..MaxPending : loadDraftRejected(i)
    \/ \E id \in {NULL, "start-1", "end-1"} : selectNode(id)
    \/ \E id \in {NULL, "edge-9"} : selectEdge(id)
    \/ \E id \in {"start-1", "end-1"} : deleteNode(id)
    \/ deleteEdge("edge-9")
    \/ reset

SelectSpec == Init /\ [][SelectNext]_vars

\* Selections made only on what the graph holds: the graph is put in place
\* while nothing is selected, nodes are added, elements present are selected
\* and any element deleted.
PresentNext ==
    \/ nodes = <<>> /\ ~Selected /\ setNodes(DefaultNodes)
    \/ edges = <<>> /\ nodes = DefaultNodes /\ ~Selected /\ setEdges(DefaultEdges)
    \/ Tick
    \/ \E n \in NodeArgs : addNode(n)
    \/ \E id \in NodeIds \cup {NULL} : selectNode(id)
    \/ \E id \in EdgeIds \cup {NULL} : selectEdge(id)
    \/ \E id \in AnyNodeId : deleteNode(id)
    \/ \E id \in AnyEdgeId : deleteEdge(id)

PresentSpec == Init /\ [][PresentNext]_vars

\* The thirteen local operations of the designer store, as the canvas and the
\* property panel call them.
LocalEdit ==
    \/ setNodes(DefaultNodes)
    \/ setEdges(DefaultEdges)
    \/ onNodesChange([type |-> "remove", id |-> "end-1"])
    \/ onEdgesChange([type |-> "remove", id |-> "edge-0"])
    \/ onConnect([source |-> "start-1", target |-> "end-1", sourceHandle |-> NULL,
                  targetHandle |-> NULL])
    \/ \E n \in {a \in NodeArgs : a.id = UNDEF} : addNode(n)
    \/ \E d \in {q \in NodePatches : q.properties = None} : updateNode("end-1", d)
    \/ deleteNode("end-1")
    \/ \E e \in {a \in EdgeArgs : a.source = "end-1" /\ a.target = "end-1"} : addEdge(e)
    \/ \E d \in EdgePatches : updateEdge("edge-0", d)
    \/ deleteEdge("edge-0")
    \/ selectNode("end-1")
    \/ selectEdge("edge-0")

\* A draft is loaded once and edited with every local operation of the
\* designer store, the load free to succeed or to fail.
EditNext ==
    \/ \E id \in DesignIds : ~loading /\ design = None /\ loadDraft(id)
    \/ \E i \in 1..MaxPending, d \in Designs : docCallResolves(i, d)
    \/ \E i \in 1..MaxPending : transportFails(i)
    \/ \E i \in 1..MaxPending : loadDraftResolved(i)
    \/ \E i \in 1..MaxPending : loadDraftRejected(i)
    \/ LocalEdit

EditSpec == Init /\ [][EditNext]_vars

\* A draft is loaded, nodes are added and dragged to fractional coordinates,
\* and the draft is saved, every backend call free to succeed or to fail.
SaveNext ==
    \/ \E id \in DesignIds : ~loading /\ loadDraft(id)
    \/ \E i \in 1..MaxPending, d \in Designs : docCallResolves(i, d)
    \/ \E i \in 1..MaxPending : transportFails(i)
    \/ \E i \in 1..MaxPending : loadDraftResolved(i)
    \/ \E i \in 1..MaxPending : loadDraftRejected(i)
    \/ \E n \in {a \in NodeArgs : a.id = UNDEF} : addNode(n)
    \/ onNodesChange([type |-> "position", id |-> "start-1",
                      position |-> [x |-> -15, y |-> 25]])
    \/ ~saving /\ saveDraft
    \/ \E i \in 1..MaxPending : saveDraftResolved(i)
    \/ \E i \in 1..MaxPending : saveDraftRejected(i)

SaveSpec == Init /\ [][SaveNext]_vars

\* validate and publish called with and without an active document: a draft
\* is loaded, saved, validated, published and the store reset in any order,
\* every backend call free to succeed or to fail.
PublishNext ==
    \/ \E id \in DesignIds : loadDraft(id)
    \/ \E i \in 1..MaxPending, d \in Designs : docCallResolves(i, d)
    \/ \E i \in 1..MaxPending : transportFails(i)
    \/ \E i \in 1..MaxPending : loadDraftResolved(i)
    \/ \E i \in 1..MaxPending : loadDraftRejected(i)
    \/ validate
    \/ publish
    \/ \E i \in 1..MaxPending : delegateSettled(i)
    \/ saveDraft
    \/ \E i \in 1..MaxPending : saveDraftResolved(i)
    \/ \E i \in 1..MaxPending : saveDraftRejected(i)
    \/ reset

PublishSpec == Init /\ [][PublishNext]_vars

\* Drafts are created and loaded over a graph that was edited or reset, every
\* backend call free to succeed or to fail.
LoadNext ==
    \/ createDraft
    \/ \E id \in DesignIds : loadDraft(id)
    \/ \E i \in 1..MaxPending, d \in Designs :
          docCallResolves(i, d) /\ requests[i].kind \in {"getDraft", "createDraft"}
    \/ \E i \in 1..MaxPending : transportFails(i)
    \/ \E i \in 1..MaxPending : createDraftResolved(i)
    \/ \E i \in 1..MaxPending : createDraftRejected(i)
    \/ \E i \in 1..MaxPending : loadDraftResolved(i)
    \/ \E i \in 1..MaxPending : loadDraftRejected(i)
    \/ \E n \in {a \in NodeArgs : a.id = UNDEF} : addNode(n)
    \/ selectNode("start-1")
    \/ reset

LoadSpec == Init /\ [][LoadNext]_vars

\* Drafts with every kind of edge are loaded and saved back unedited.
RoundTripNext ==
    \/ \E id \in DesignIds : ~loading /\ loadDraft(id)
    \/ \E i \in 1..MaxPending, d \in EdgeDesigns : docCallResolves(i, d)
    \/ \E i \in 1..MaxPending : transportFails(i)
    \/ \E i \in 1..MaxPending : loadDraftResolved(i)
    \/ \E i \in 1..MaxPending : loadDraftRejected(i)
    \/ ~saving /\ saveDraft
    \/ \E i \in 1..MaxPending : saveDraftResolved(i)
    \/ \E i \in 1..MaxPending : saveDraftRejected(i)
    \/ \E id \in {NULL, "edge-1", "edge-3"} : selectEdge(id)

RoundTripSpec == Init /\ [][RoundTripNext]_vars

\* Tags are loaded, assigned and removed for two users, every backend call
\* free to succeed or to fail.
TagNext ==
    \/ \E u \in TagUsers : loadUserTags(u)
    \/ \E u \in TagUsers : assignTag(u)
    \/ \E u \in TagUsers : removeTag(u)
    \/ \E i \in 1..MaxPending, data \in {None} \cup {Some(t) : t \in TagLists} :
          tagCallResolves(i, data)
    \/ \E i \in 1..MaxPending : transportFails(i)
    \/ \E i \in 1..MaxPending : loadUserTagsSettled(i)
    \/ \E i \in 1..MaxPending : tagChangeResolved(i)
    \/ \E i \in 1..MaxPending : tagChangeRejected(i)

TagSpec == Init /\ [][TagNext]_vars

\* The template catalog is fetched while a draft is loaded and the store is
\* reset, every backend call free to succeed or to fail.
TemplateNext ==
    \/ consoleErrors < MaxErrors /\ loadTemplates
    \/ \E id \in DesignIds : loadDraft(id)
    \/ \E i \in 1..MaxPending, d \in Designs :
          docCallResolves(i, d) /\ requests[i].kind = "getDraft"
    \/ \E i \in 1..MaxPending, c \in Catalogs :
          docCallResolves(i, c) /\ requests[i].kind = "getTemplates"
    \/ \E i \in 1..MaxPending : transportFails(i)
    \/ \E i \in 1..MaxPending : loadTemplatesSettled(i)
    \/ \E i \in 1..MaxPending : loadDraftResolved(i)
    \/ \E i \in 1..MaxPending : loadDraftRejected(i)
    \/ reset

TemplateSpec == Init /\ [][TemplateNext]_vars

\* The events a channel delivers: one of each type the reducer has a case for,
\* one it has none for, and changes of two variables.
ReducerEvents ==
    {Event(t, "s-1", NodePath[1]) : t \in {"node_entered", "node_exited"}}
        \cup {Event("breakpoint_hit", "s-1", NodePath[2])}
        \cup {Event(t, "s-1", NULL) :
                t \in {"session_paused", "session_resumed", "session_completed",
                       "error", "custom"}}
        \cup {VarEvent("s-1", "x", "1"), VarEvent("s-1", "x", "2"),
              VarEvent("s-1", "y", "1")}

\* handleEvent called with any event, with and without a session, the log
\* cleared and the store reset in between.
ReducerNext ==
    \/ \E s \in {None,
                 Some(Session("s-1", "paused", NodePath[1])),
                 Some([Session("s-1", "running", NodePath[1]) EXCEPT
                         !.variables = [x |-> "0", z |-> "9"]])} : setSession(s)
    \/ \E e \in ReducerEvents : Len(events) < MaxFrames /\ handleEventCalled(e)
    \/ clearEvents
    \/ resetDebug

ReducerSpec == Init /\ [][ReducerNext]_vars

\* Events of the session held and of an earlier session "s-0".
ForeignEvents ==
    {Event(t, sid, NodePath[2]) : t \in {"node_entered", "breakpoint_hit"},
                                  sid \in {"s-0", "s-1"}}
        \cup {Event(t, sid, NULL) : t \in {"session_resumed", "session_completed"},
                                    sid \in {"s-0", "s-1"}}
        \cup {VarEvent(sid, "x", "1") : sid \in {"s-0", "s-1"}}

\* handleEvent called with events of either session, with and without a
\* session held.
ForeignNext ==
    \/ \E s \in {None, Some(Session("s-1", "paused", NodePath[1]))} : setSession(s)
    \/ \E e \in ForeignEvents : Len(events) < MaxFrames /\ handleEventCalled(e)
    \/ clearEvents

ForeignSpec == Init /\ [][ForeignNext]_vars

\* The backend call i resolves with whatever body the response carries: the
\* client functions return res.data.data unchecked.
callResolves(i, data) ==
    /\ i \in 1..Len(requests)
    /\ requests[i].phase = "sent"
    /\ requests[i].kind \in {"step", "createSession", "getVariables", "loadTimeline"}
          <=> data # None
    /\ requests' = Reply(i, data)
    /\ UNCHANGED <<session, ws, events, highlightedNodeId, dloading, derror,
                   showDebugPanel, sockets, srv, emitted, consoleErrors, op>>
    /\ UNCHANGED <<designerVars, tagStore>>

\* The bodies a step or createSession call may resolve with: a session paused
\* at a node, or a completed one without a current token.
StepResults ==
    {None} \cup {Some(Session(sid, "paused", NodePath[2])) : sid \in SessionIds}
           \cup {Some(Session(sid, "completed", NULL)) : sid \in SessionIds}

\* The debug store's createSession, step, continue and pause called in any
\* order and in any status, every backend call free to resolve or to fail.
CommandNext ==
    \/ \E s \in {None, Some(Session("s-1", "paused", NodePath[1]))} : setSession(s)
    \/ createSession
    \/ step
    \/ continue
    \/ pause
    \/ \E i \in 1..MaxPending : createSessionResolved(i)
    \/ \E i \in 1..MaxPending : createSessionRejected(i)
    \/ \E i \in 1..MaxPending, d \in StepResults : callResolves(i, d)
    \/ \E i \in 1..MaxPending : transportFails(i)
    \/ \E i \in 1..MaxPending : stepResolved(i)
    \/ \E i \in 1..MaxPending : continueResolved(i)
    \/ \E i \in 1..MaxPending : pauseResolved(i)
    \/ \E i \in 1..MaxPending : stepRejected(i)
    \/ \E i \in 1..MaxPending : continueRejected(i)
    \/ \E i \in 1..MaxPending : pauseRejected(i)

CommandSpec == Init /\ [][CommandNext]_vars

\* The debug store's stop called at any time on a session with or without an
\* event channel and a highlighted node, the backend call free to resolve or
\* to fail.
StopNext ==
    \/ \E s \in {None, Some(Session("s-1", "paused", NodePath[1]))} : setSession(s)
    \/ \E sid \in SessionIds : connect(sid)
    \/ \E n \in {NULL, NodePath[1]} : setHighlightedNode(n)
    \/ disconnect
    \/ stop
    \/ \E i \in 1..MaxPending : callResolves(i, None)
    \/ \E i \in 1..MaxPending : transportFails(i)
    \/ \E i \in 1..MaxPending : stopResolved(i)
    \/ \E i \in 1..MaxPending : stopRejected(i)
    \/ \E k \in 1..MaxSockets : onclose(k)

StopSpec == Init /\ [][StopNext]_vars

\* The frames of a session running to its end.
CompletionFrames ==
    {ToWire(Event("session_completed", "s-1", NULL)),
     ToWire(Event("node_entered", "s-1", NodePath[2]))}

\* The event reducer fed the frames of a session's end, once or repeatedly,
\* in any session status and with any highlight.
EventNext ==
    \/ \E s \in {None, Some(Session("s-1", "paused", NodePath[1])),
                  Some(Session("s-1", "error", NULL))} : setSession(s)
    \/ \E sid \in SessionIds : connect(sid)
    \/ \E n \in {NULL, NodePath[1]} : setHighlightedNode(n)
    \/ \E k \in 1..MaxSockets, f \in CompletionFrames : frameArrives(k, f)
    \/ \E k \in 1..MaxSockets : onmessage(k)

EventSpec == Init /\ [][EventNext]_vars

\* addBreakpoint's arguments: a node with or without a condition.
BreakpointArgs ==
    {<<NodePath[1], "x > 1">>, <<NodePath[2], UNDEF>>}

\* The breakpoint operations called in any order on the nodes of the
\* instance, every backend call free to resolve or to fail.
BreakpointNext ==
    \/ \E s \in {None, Some(Session("s-1", "paused", NodePath[1]))} : setSession(s)
    \/ \E a \in BreakpointArgs : addBreakpoint(a[1], a[2])
    \/ \E k \in 1..Len(NodePath) : removeBreakpoint(NodePath[k])
    \/ \E k \in 1..Len(NodePath) : toggleBreakpoint(NodePath[k])
    \/ \E i \in 1..MaxPending : callResolves(i, None)
    \/ \E i \in 1..MaxPending : transportFails(i)
    \/ \E i \in 1..MaxPending : addBreakpointResolved(i)
    \/ \E i \in 1..MaxPending : removeBreakpointResolved(i)
    \/ \E i \in 1..MaxPending : addBreakpointRejected(i)
    \/ \E i \in 1..MaxPending : removeBreakpointRejected(i)

BreakpointSpec == Init /\ [][BreakpointNext]_vars

\* The breakpoint operations overlapping on one session: the session is
\* installed once, and a toggle may run while an add or a remove is awaited.
OverlapNext ==
    \/ session = None /\ setSession(Some(Session("s-1", "paused", NodePath[1])))
    \/ \E a \in BreakpointArgs : addBreakpoint(a[1], a[2])
    \/ \E k \in 1..Len(NodePath) : removeBreakpoint(NodePath[k])
    \/ \E k \in 1..Len(NodePath) : toggleBreakpoint(NodePath[k])
    \/ \E i \in 1..MaxPending : callResolves(i, None)
    \/ \E i \in 1..MaxPending : transportFails(i)
    \/ \E i \in 1..MaxPending : addBreakpointResolved(i)
    \/ \E i \in 1..MaxPending : removeBreakpointResolved(i)
    \/ \E i \in 1..MaxPending : addBreakpointRejected(i)
    \/ \E i \in 1..MaxPending : removeBreakpointRejected(i)

OverlapSpec == Init /\ [][OverlapNext]_vars

\* Every command of the debug store called while there is no session, and the
\* variable and timeline commands called on a session as well, the session
\* set and dropped in between and every backend call free to resolve or fail.
NoSessionNext ==
    \/ \E s \in {None, Some(Session("s-1", "paused", NodePath[1]))} : setSession(s)
    \/ session = None /\ step
    \/ session = None /\ continue
    \/ session = None /\ pause
    \/ session = None /\ stop
    \/ \E a \in BreakpointArgs : session = None /\ addBreakpoint(a[1], a[2])
    \/ session = None /\ removeBreakpoint(NodePath[1])
    \/ session = None /\ toggleBreakpoint(NodePath[1])
    \/ getVariables
    \/ setVariable("x", "1")
    \/ loadTimeline
    \/ \E i \in 1..MaxPending :
          callResolves(i, Some([x |-> "2", y |-> "1"])) /\ requests[i].kind = "getVariables"
    \/ \E i \in 1..MaxPending :
          callResolves(i, Some(<<"step-1">>)) /\ requests[i].kind = "loadTimeline"
    \/ \E i \in 1..MaxPending : callResolves(i, None)
    \/ \E i \in 1..MaxPending : transportFails(i)
    \/ \E i \in 1..MaxPending : getVariablesResolved(i)
    \/ \E i \in 1..MaxPending : setVariableResolved(i)
    \/ \E i \in 1..MaxPending : loadTimelineResolved(i)
    \/ \E i \in 1..MaxPending, kind \in {"getVariables", "setVariable", "loadTimeline"} :
          commandRejected(i, kind)

NoSessionSpec == Init /\ [][NoSessionNext]_vars

\* stop() called while another command of the same session is still awaited:
\* stop may be sent with MaxPending calls already in flight.
StoppedNext ==
    \/ /\ session = None /\ requests = <<>>
       /\ setSession(Some(Session("s-1", "paused", NodePath[1])))
    \/ step
    \/ continue
    \/ getVariables
    \/ commandWithin("stop", MaxPending + 1)
    \/ \E i \in 1..MaxPending + 1 :
          /\ callResolves(i, Some(Session("s-1", "paused", NodePath[2])))
          /\ requests[i].kind = "step"
    \/ \E i \in 1..MaxPending + 1 :
          callResolves(i, Some([x |-> "2"])) /\ requests[i].kind = "getVariables"
    \/ \E i \in 1..MaxPending + 1 : callResolves(i, None)
    \/ \E i \in 1..MaxPending + 1 : transportFails(i)
    \/ \E i \in 1..MaxPending + 1 : stepResolved(i)
    \/ \E i \in 1..MaxPending + 1 : continueResolved(i)
    \/ \E i \in 1..MaxPending + 1 : getVariablesResolved(i)
    \/ \E i \in 1..MaxPending + 1 : stopResolved(i)
    \/ \E i \in 1..MaxPending + 1, kind \in {"step", "continue", "getVariables", "stop"} :
          commandRejected(i, kind)

StoppedSpec == Init /\ [][StoppedNext]_vars

\* Variables are set while variable_changed events arrive for the same
\* session: a session holding x is installed once, setVariable calls and
\* events follow in any order.
VariableNext ==
    \/ /\ session = None
       /\ setSession(Some([Session("s-1", "paused", NodePath[1]) EXCEPT
                             !.variables = [x |-> "0"]]))
    \/ \E kv \in {<<"y", "1">>, <<"x", "5">>} : setVariable(kv[1], kv[2])
    \/ \E i \in 1..MaxPending : callResolves(i, None)
    \/ \E i \in 1..MaxPending : transportFails(i)
    \/ \E i \in 1..MaxPending : setVariableResolved(i)
    \/ \E i \in 1..MaxPending : commandRejected(i, "setVariable")
    \/ \E e \in {VarEvent("s-1", "x", "1"), VarEvent("s-1", "x", "2"),
                  VarEvent("s-1", "y", "2")} :
          Len(events) < MaxFrames /\ handleEventCalled(e)

VariableSpec == Init /\ [][VariableNext]_vars

\* The event channel on its own: connect and disconnect called in any order,
\* any frame arriving on an open socket.
ChannelNext ==
    \/ \E s \in {None, Some(Session("s-1", "paused", NodePath[1]))} : setSession(s)
    \/ \E sid \in SessionIds : connect(sid)
    \/ disconnect
    \/ resetDebug
    \/ \E k \in 1..MaxSockets, f \in Frames : frameArrives(k, f)
    \/ \E k \in 1..MaxSockets : onmessage(k)
    \/ \E k \in 1..MaxSockets : onclose(k)

ChannelSpec == Init /\ [][ChannelNext]_vars

\* The channel used one socket at a time: connect is called only when no
\* socket is open, so every reconnect follows a disconnect.
ReconnectNext ==
    \/ \E s \in {None, Some(Session("s-1", "paused", NodePath[1]))} : setSession(s)
    \/ \E sid \in SessionIds : OpenSockets = {} /\ connect(sid)
    \/ disconnect
    \/ \E k \in 1..MaxSockets, f \in Frames : frameArrives(k, f)
    \/ \E k \in 1..MaxSockets : onmessage(k)
    \/ \E k \in 1..MaxSockets : onclose(k)

ReconnectSpec == Init /\ [][ReconnectNext]_vars

\* ================================================================ claims

\* The elements of s that satisfy Keep, in order, as an index-shift relation:
\* t holds exactly the kept elements of s, each moved down by the number of
\* dropped elements before it.
KeptExactly(s, t, Keep(_)) ==
    LET dropped(i) == Cardinality({j \in 1..(i - 1) : ~Keep(s[j])})
    IN  /\ Len(t) = Len(s) - dropped(Len(s) + 1)
        /\ \A i \in 1..Len(s) : Keep(s[i]) => t[i - dropped(i)] = s[i]

\* C1 (cascade delete): for any node id v present in the graph, after
\* deleteNode(v) node v is absent from nodes and no edge has source v or
\* target v; every other node and every edge not incident to v is kept.
C1_CascadeDelete ==
    [][\A v \in AnyNodeId :
          (v \in NodeIds /\ deleteNode(v)) =>
              /\ v \notin NodeIds'
              /\ \A i \in 1..Len(edges') : ~Incident(edges'[i], v)
              /\ KeptExactly(nodes, nodes', LAMBDA n : n.id # v)
              /\ KeptExactly(edges, edges', LAMBDA e : ~Incident(e, v))]_vars

\* C1 witness: deleteNode has just removed a present node together with an
\* incident edge, and another node and a non-incident edge are still there.
C1_Witness ==
    /\ op.name = "deleteNode"
    /\ op.hit
    /\ Len(nodes) >= 1
    /\ Len(edges) >= 1

\* C2 (edge endpoint integrity): in every state reachable through the
\* designer store's operations, every edge's source and target are ids of
\* nodes of the same graph.
C2_EdgeEndpointIntegrity ==
    \A i \in 1..Len(edges) :
        edges[i].source \in NodeIds /\ edges[i].target \in NodeIds

\* C3 (id uniqueness): after any sequence of addNode, addEdge and onConnect
\* calls, node ids are pairwise distinct and edge ids are pairwise distinct.
C3_IdsUnique ==
    /\ \A i, j \in 1..Len(nodes) : nodes[i].id = nodes[j].id => i = j
    /\ \A i, j \in 1..Len(edges) : edges[i].id = edges[j].id => i = j

\* C4 (debug status terminality): once the local status is 'completed' or
\* 'error' no command acknowledgment and no pushed event changes it; the only
\* status transitions of a session are paused -> running, running -> paused
\* and paused/running -> completed or error.
C4_StatusTerminality ==
    [][(/\ session # None
        /\ session' # None
        /\ session'[1].id = session[1].id
        /\ session'[1].status # session[1].status)
       => /\ session[1].status \in {"paused", "running"}
          /\ session[1].status = "paused" => session'[1].status # "paused"]_vars

\* C5 (command validity by status), as the claim states it: step() and
\* continue() send their backend call only when the session is paused, and
\* pause() only when it is running.
C5_CommandValidByStatus ==
    [][\A kind \in {"step", "continue", "pause"} :
          (command(kind) /\ Len(requests') > Len(requests)) =>
              StatusIs(IF kind = "pause" THEN "running" ELSE "paused")]_vars

\* C5 amended: step(), continue() and pause() are no-ops exactly when the
\* store holds no session; with a session, whatever its status, they send
\* the backend call for that session's id and change no store field before
\* the call settles.
C5_CommandsNeedOnlyASession ==
    [][\A kind \in {"step", "continue", "pause"} :
          command(kind) =>
              /\ UNCHANGED <<session, ws, events, highlightedNodeId, dloading, derror>>
              /\ session = None => requests' = requests
              /\ session # None =>
                    /\ Len(requests') = Len(requests) + 1
                    /\ requests'[Len(requests')].kind = kind
                    /\ requests'[Len(requests')].sid = session[1].id
                    /\ requests'[Len(requests')].phase = "sent"]_vars

\* C5 witness: the store's step() has just sent its backend call although the
\* session is running.
C5_Witness ==
    /\ op.name = "step"
    /\ op.result = "awaiting"
    /\ StatusIs("running")
    /\ \E i \in 1..Len(requests) : requests[i].kind = "step" /\ requests[i].phase = "sent"

\* C6 (stop asymmetry): stop() changes nothing before the backend call
\* settles; when the call fails the session, highlightedNodeId, the ws field
\* and the sockets are left as they were, error becomes the failure message and
\* the failure is re-raised; when it succeeds the channel is closed and session
\* and highlightedNodeId are cleared.
C6_StopAsymmetry ==
    [][/\ stop => UNCHANGED <<session, highlightedNodeId, ws, sockets, derror>>
       /\ \A i \in 1..MaxPending :
            /\ stopRejected(i) =>
                  /\ UNCHANGED <<session, highlightedNodeId, ws, sockets, events>>
                  /\ derror' = requests[i].msg
                  /\ derror' # NULL
                  /\ op'.result = "thrown"
            /\ stopResolved(i) =>
                  /\ session' = None
                  /\ highlightedNodeId' = NULL
                  /\ ws' = 0
                  /\ ws # 0 => sockets'[ws].state # "open"
                  /\ derror' = derror
                  /\ op'.result = "returned"]_vars

\* C6 witness: a stop() has just failed while a session with a highlighted
\* node and an open event channel was held; all three are still there.
C6_Witness ==
    /\ op.name = "stop"
    /\ op.result = "thrown"
    /\ session # None
    /\ highlightedNodeId # NULL
    /\ ws # 0
    /\ derror # NULL

\* Nothing is left to run: no backend call in flight, no frame waiting on an
\* open socket, no socket closing.
Quiescent ==
    /\ requests = <<>>
    /\ \A k \in 1..Len(sockets) :
          /\ sockets[k].state # "closing"
          /\ sockets[k].state = "open" => sockets[k].inbox = <<>>

\* C7 (acknowledgment and events converge): whichever order the
\* acknowledgment of a continue() or pause() and the pushed events arrive in,
\* the final local status is the same. The events arriving after the
\* acknowledgment leave the backend's status, so in every order the local
\* status must equal the backend's once nothing is left to run.
C7_AckAndEventsConverge ==
    (/\ session # None
     /\ Quiescent
     /\ ws \in OpenSockets
     /\ op.name \in {"continue", "pause", "handleEvent"})
    => session[1].status = srv[session[1].id].status

\* C8 (single event channel): after any sequence of connect and disconnect
\* calls at most one event-channel socket is open.
C8_SingleEventChannel == Cardinality(OpenSockets) <= 1

\* The session has ended: stopped or reset, in status 'error', or its panel
\* closed.
SessionEnded ==
    \/ session = None
    \/ session[1].status = "error"
    \/ ~showDebugPanel

\* C9 (channel closed on every exit path): whenever a session ends the event
\* channel opened for it is eventually closed. Once nothing is left to run no
\* later step of the store can close it, so then no socket may be open.
C9_ChannelClosedOnExit == (SessionEnded /\ Quiescent) => OpenSockets = {}

\* C10 (malformed frame tolerated): when ws.onmessage receives a frame that
\* does not parse as JSON no exception escapes, the session, highlightedNodeId
\* and the event log are unchanged and the channel stays open; a valid
\* node_entered event received after such a frame is still processed: logged,
\* and the highlight set to its node id.
C10_MalformedFrameTolerated ==
    [][\A k \in 1..MaxSockets :
          onmessage(k) =>
              LET parsed == JSONparse(Head(sockets[k].inbox))
              IN  /\ parsed = None =>
                        /\ UNCHANGED <<session, highlightedNodeId, events, ws>>
                        /\ sockets'[k].state = "open"
                        /\ op'.result = "caught"
                  /\ (parsed # None /\ consoleErrors > 0
                                    /\ parsed[1].type = "node_entered") =>
                        /\ highlightedNodeId' = parsed[1].payload.node_id
                        /\ events' = Append(events, parsed[1])
                        /\ session' = session]_vars

\* C10 witness: with a session held, a malformed frame was dropped and a
\* node_entered event received after it has just set the highlight.
C10_Witness ==
    /\ consoleErrors > 0
    /\ session # None
    /\ op.name = "handleEvent"
    /\ op.result = "node_entered"
    /\ highlightedNodeId = NodePath[2]
    /\ Len(events) = 1

\* The frame is the text of a session_completed event.
IsCompletion(frame) ==
    /\ JSONparse(frame) # None
    /\ JSONparse(frame)[1].type = "session_completed"

\* C11 (event idempotence): with a session held, handling a session_completed
\* event leaves status 'completed' and highlightedNodeId null whatever they
\* were; handling the same event again right after changes neither the
\* session nor the highlight.
C11_EventIdempotence ==
    [][\A k \in 1..MaxSockets :
          (/\ onmessage(k)
           /\ session # None
           /\ IsCompletion(Head(sockets[k].inbox))) =>
              /\ session' # None
              /\ session'[1].status = "completed"
              /\ highlightedNodeId' = NULL
              /\ (op.name = "handleEvent" /\ op.result = "session_completed") =>
                    /\ session' = session
                    /\ highlightedNodeId' = highlightedNodeId]_vars

\* C11 witness: the same session_completed event has just been handled a
\* second time in a row; the status is 'completed' and nothing is highlighted.
C11_Witness ==
    /\ op.name = "handleEvent"
    /\ op.result = "session_completed"
    /\ Len(events) >= 2
    /\ events[Len(events)] = events[Len(events) - 1]
    /\ session # None
    /\ session[1].status = "completed"
    /\ highlightedNodeId = NULL

\* C12 (step() result handling): when a step succeeds the session becomes the
\* session of the reply, and highlightedNodeId becomes the reply's
\* currentToken.currentNodeId, or null when the reply has no current token.
C12_StepResultHandling ==
    [][\A i \in 1..MaxPending :
          stepResolved(i) =>
              /\ session' = requests[i].data
              /\ highlightedNodeId' = requests[i].data[1].currentToken]_vars

\* C13 (highlight follows the session's token from creation): when a session
\* with a current token at node n has been created highlightedNodeId is n, and
\* when a step then succeeds with a current token at node m it is m.
C13_HighlightFollowsToken ==
    [][\A i \in 1..MaxPending :
          /\ (createSessionResolved(i) /\ requests[i].data[1].currentToken # NULL) =>
                highlightedNodeId' = requests[i].data[1].currentToken
          /\ (stepResolved(i) /\ requests[i].data[1].currentToken # NULL) =>
                highlightedNodeId' = requests[i].data[1].currentToken]_vars

\* C14 (toggleBreakpoint is purely local): toggleBreakpoint(nodeId) issues no
\* backend call; on a node with a breakpoint it flips that breakpoint's
\* enabled flag and changes nothing else of the session; on a node without a
\* breakpoint, or with no session, it creates no entry and changes nothing.
C14_ToggleIsLocal ==
    [][\A k \in 1..Len(NodePath) :
          toggleBreakpoint(NodePath[k]) =>
              /\ requests' = requests
              /\ session = None => session' = None
              /\ session # None =>
                    LET n == NodePath[k]
                        old == session[1].breakpoints
                        new == session'[1].breakpoints
                    IN  /\ session' # None
                        /\ [session'[1] EXCEPT !.breakpoints = old] = session[1]
                        /\ DOMAIN new = DOMAIN old
                        /\ \A m \in DOMAIN old : m # n => new[m] = old[m]
                        /\ n \in DOMAIN old =>
                              /\ new[n].enabled = ~old[n].enabled
                              /\ new[n].nodeId = old[n].nodeId
                              /\ new[n].condition = old[n].condition]_vars

\* C14 witness: a toggle has just disabled one of two breakpoints, the one
\* with a condition.
C14_Witness ==
    /\ op.name = "toggleBreakpoint"
    /\ op.hit
    /\ session # None
    /\ DOMAIN session[1].breakpoints = {NodePath[1], NodePath[2]}
    /\ ~session[1].breakpoints[NodePath[1]].enabled
    /\ session[1].breakpoints[NodePath[1]].condition = "x > 1"
    /\ session[1].breakpoints[NodePath[2]].enabled

\* C15 (breakpoints change after the backend succeeded): addBreakpoint and
\* removeBreakpoint leave the session as it is until their backend call
\* settles; when the call of addBreakpoint(n, c) succeeds the session's map
\* has for n the entry {nodeId: n, condition: c, enabled: true}; when that of
\* removeBreakpoint(n) succeeds it has no entry for n; when the call fails the
\* session is unchanged, error is the failure message and the failure is
\* re-raised.
C15_BreakpointsAfterBackend ==
    [][/\ \A a \in BreakpointArgs :
            /\ addBreakpoint(a[1], a[2]) => session' = session
            /\ removeBreakpoint(a[1]) => session' = session
       /\ \A i \in 1..MaxPending :
            /\ (addBreakpointResolved(i) /\ session # None) =>
                  /\ session' # None
                  /\ requests[i].nodeId \in DOMAIN session'[1].breakpoints
                  /\ session'[1].breakpoints[requests[i].nodeId] =
                        [nodeId |-> requests[i].nodeId,
                         condition |-> requests[i].condition, enabled |-> TRUE]
            /\ (removeBreakpointResolved(i) /\ session # None) =>
                  /\ session' # None
                  /\ requests[i].nodeId \notin DOMAIN session'[1].breakpoints
            /\ (addBreakpointRejected(i) \/ removeBreakpointRejected(i)) =>
                  /\ session' = session
                  /\ derror' = requests[i].msg
                  /\ derror' # NULL
                  /\ op'.result = "thrown"]_vars

\* C15 witness: after an earlier breakpoint call failed, an addBreakpoint with
\* a condition has just succeeded and its entry is in the map.
C15_Witness ==
    /\ op.name = "addBreakpoint"
    /\ op.result = "returned"
    /\ op.hit
    /\ session # None
    /\ NodePath[1] \in DOMAIN session[1].breakpoints
    /\ session[1].breakpoints[NodePath[1]] =
          [nodeId |-> NodePath[1], condition |-> "x > 1", enabled |-> TRUE]
    /\ derror # NULL

\* C16: selectNode(x) always leaves selectedEdgeId null and selectEdge(y) always
\* leaves selectedNodeId null, so that in every reachable state at most one of
\* the two selection fields is non-null; selectNode(null) called while
\* something is selected leaves nothing selected.
C16_SelectionExclusive ==
    /\ [](selectedNodeId = NULL \/ selectedEdgeId = NULL)
    /\ [][/\ \A x \in {NULL, "start-1", "end-1"} :
               selectNode(x) => (selectedNodeId' = x /\ selectedEdgeId' = NULL)
          /\ \A y \in {NULL, "edge-9"} :
               selectEdge(y) => (selectedEdgeId' = y /\ selectedNodeId' = NULL)
          /\ (selectNode(NULL) /\ Selected) => ~Selected']_vars

\* C16 happens: selectNode(null) has just been called while something was
\* selected in a non-empty graph, and nothing is selected any more.
C16_Witness ==
    /\ op.name = "selectNode" /\ op.hit
    /\ nodes # <<>> /\ edges # <<>>
    /\ selectedNodeId = NULL /\ selectedEdgeId = NULL

\* C17: for every DesignerNode n whose property bag has no key named 'label',
\* toFlowNode followed by the conversion of toDesignerNodes gives back n with
\* only the position fields rounded to integers. The nodes are those of the
\* document the backend returned.
C17_NodeRoundTrip ==
    design # None =>
        \A j \in 1..Len(design[1].nodes) :
            LET n == design[1].nodes[j]
            IN  "label" \notin DOMAIN n.properties =>
                    toDesignerNode(toFlowNode(n)) =
                        [n EXCEPT !.position = [x |-> MathRound(n.position.x),
                                                y |-> MathRound(n.position.y)]]

\* C18: the body saveDraft() sends holds one node per node of the render graph,
\* in order, with x and y a whole number at most half a unit from the render
\* coordinate; (100.6, 200.4) is sent as (101, 200).
C18_SaveRoundsPositions ==
    [][(saveDraft /\ designId # NULL) =>
          LET sent == requests'[Len(requests')].payload[1].nodes
              Nearest(r, x) == r % 10 = 0 /\ r - x <= 5 /\ x - r <= 5
          IN  /\ requests'[Len(requests')].kind = "updateDraft"
              /\ Len(sent) = Len(nodes)
              /\ \A i \in 1..Len(nodes) :
                    /\ sent[i].id = nodes[i].id
                    /\ Nearest(sent[i].position.x, nodes[i].position.x)
                    /\ Nearest(sent[i].position.y, nodes[i].position.y)
                    /\ nodes[i].position = [x |-> 1006, y |-> 2004] =>
                          sent[i].position = [x |-> 1010, y |-> 2000]]_vars

\* C18 happens: a save is in flight whose body holds the node added at
\* (100.6, 200.4) as (101, 200) and a node dragged to (-1.5, 2.5).
C18_Witness ==
    /\ op.name = "saveDraft" /\ op.result = "awaiting"
    /\ \E i \in 1..Len(requests) :
          /\ requests[i].kind = "updateDraft"
          /\ \E j \in 1..Len(nodes) :
                /\ nodes[j].position = [x |-> 1006, y |-> 2004]
                /\ requests[i].payload[1].nodes[j].position = [x |-> 1010, y |-> 2000]
          /\ \E j \in 1..Len(nodes) : nodes[j].position = [x |-> -15, y |-> 25]

\* C19: each of setNodes, setEdges, onNodesChange, onEdgesChange, onConnect,
\* addNode, updateNode, deleteNode, addEdge, updateEdge, deleteEdge, selectNode
\* and selectEdge returns at once, sends no backend request, and leaves design,
\* designId, templates, loading, saving and error as they were.
C19_LocalFirstEditing ==
    [][LocalEdit =>
          /\ op'.result = "returned"
          /\ requests' = requests
          /\ design' = design /\ designId' = designId /\ templates' = templates
          /\ loading' = loading /\ saving' = saving /\ error' = error]_vars

\* C19 happens: an edge of a loaded draft has just been deleted locally.
C19_Witness ==
    /\ op.name = "deleteEdge" /\ op.hit
    /\ design # None /\ designId = "d-1"
    /\ nodes # <<>>

\* C20: validate() and publish() called while designId is null throw, send no
\* backend request and change no field of either store; called with an active
\* document they add exactly one backend request, for that designId, and
\* change no field of the designer store.
C20_DelegationNeedsDocument ==
    [][/\ ((validate \/ publish) /\ designId = NULL) =>
             /\ op'.result = "thrown"
             /\ requests' = requests
             /\ UNCHANGED <<designerVars, debugVars>>
       /\ ((validate \/ publish) /\ designId # NULL) =>
             /\ op'.result = "awaiting"
             /\ Len(requests') = Len(requests) + 1
             /\ SubSeq(requests', 1, Len(requests)) = requests
             /\ requests'[Len(requests')].sid = designId
             /\ requests'[Len(requests')].phase = "sent"
             /\ validate => requests'[Len(requests')].kind = "validateDesign"
             /\ publish => requests'[Len(requests')].kind = "publishDesign"
             /\ UNCHANGED designerVars]_vars

\* C20 happens: publish() has just thrown for want of an active document,
\* while the request of a validate() made before the reset is still in flight
\* for the draft that was active then.
C20_Witness ==
    /\ op.name = "publish" /\ op.result = "thrown"
    /\ designId = NULL
    /\ \E i \in 1..Len(requests) :
          requests[i].kind = "validateDesign" /\ requests[i].sid = "d-1"

\* C21: every designer store operation that calls the backend, when its call
\* fails, both sets the error field to the failure message and re-raises the
\* failure to its caller (loadDraft, saveDraft, validate, publish).
C21_ErrorPropagation ==
    [][\A i \in 1..MaxPending :
          (\/ loadDraftRejected(i)
           \/ saveDraftRejected(i)
           \/ (delegateSettled(i) /\ requests[i].phase = "fail")) =>
              /\ op'.result = "thrown"
              /\ error' = requests[i].msg]_vars

\* C22: loadTemplates() never raises: when the backend answers, templates
\* becomes the fetched catalog; when the call fails, templates becomes the
\* built-in fallback catalog; either way the error field and the graph stay
\* as they were.
C22_TemplatesFallBack ==
    [][\A i \in 1..MaxPending :
          loadTemplatesSettled(i) =>
              /\ op'.result = "returned"
              /\ requests[i].phase = "ok" => templates' = requests[i].data[1]
              /\ requests[i].phase = "fail" =>
                    /\ Len(templates') = 5
                    /\ templates'[1].type = "start" /\ templates'[2].type = "end"
                    /\ templates'[3].type = "user_task"
                    /\ templates'[4].type = "service_task"
                    /\ templates'[5].type = "exclusive_gateway"
              /\ error' = error
              /\ nodes' = nodes /\ edges' = edges]_vars

\* C22 happens: the catalog call has just failed on a loaded draft, and the
\* built-in catalog is installed.
C22_Witness ==
    /\ op.name = "loadTemplates" /\ op.result = "returned"
    /\ consoleErrors > 0
    /\ templates = FallbackTemplates
    /\ nodes # <<>>

\* C23: for every connection from s to t that is not yet in the graph,
\* onConnect adds exactly one edge, from s to t, after the edges already
\* there; it does so whatever the nodes s and t are (an end node as source, a
\* node that is not in the graph); from no edges the result is the one edge
\* s -> t.
C23_ConnectAddsOneEdge ==
    [][\A c \in Connections :
          (/\ onConnect(c)
           /\ c.source # NULL /\ c.target # NULL
           /\ ~\E i \in 1..Len(edges) :
                 edges[i].source = c.source /\ edges[i].target = c.target) =>
              /\ Len(edges') = Len(edges) + 1
              /\ SubSeq(edges', 1, Len(edges)) = edges
              /\ edges'[Len(edges')].source = c.source
              /\ edges'[Len(edges')].target = c.target
              /\ nodes' = nodes]_vars

\* C23 happens: onConnect has just added the only edge of the graph, and it
\* leaves an end node that is in the graph.
C23_Witness ==
    /\ op.name = "onConnect" /\ op.hit
    /\ Len(edges) = 1
    /\ \E i \in 1..Len(nodes) : nodes[i].id = edges[1].source /\ nodes[i].type = "end"

\* C24: every event handed to handleEvent, of whatever type and with or
\* without a session, becomes the last element of events, the earlier ones
\* kept in order; a step after which events is not an extension of what it
\* was is a clearEvents or a reset.
C24_EventLogAppendOnly ==
    [][/\ \A e \in ReducerEvents : handleEventCalled(e) => events' = Append(events, e)
       /\ ~(/\ Len(events') >= Len(events)
            /\ SubSeq(events', 1, Len(events)) = events) =>
             op'.name \in {"clearEvents", "reset"}]_vars

\* C24 happens: with no session, a node_exited event and an event of an
\* unrecognized type have been handled and are in the log in that order.
C24_Witness ==
    /\ op.name = "handleEvent" /\ ~op.hit
    /\ session = None
    /\ Len(events) = 2
    /\ events[1].type = "node_exited" /\ events[2].type = "custom"

\* C25: with a session present, handleEvent makes the status 'paused' on
\* session_paused and breakpoint_hit, 'running' on session_resumed,
\* 'completed' on session_completed, 'error' on error, and leaves it alone on
\* every other event type.
C25_StatusReducer ==
    [][\A e \in ReducerEvents :
          (handleEventCalled(e) /\ session # None) =>
              /\ session' # None
              /\ session'[1].status =
                    CASE e.type \in {"session_paused", "breakpoint_hit"} -> "paused"
                      [] e.type = "session_resumed" -> "running"
                      [] e.type = "session_completed" -> "completed"
                      [] e.type = "error" -> "error"
                      [] OTHER -> session[1].status]_vars

\* C25 happens: a running session was paused by a breakpoint_hit event and
\* then put in status error by an error event.
C25_Witness ==
    /\ op.name = "handleEvent" /\ op.hit
    /\ Len(events) = 2
    /\ events[1].type = "breakpoint_hit" /\ events[2].type = "error"
    /\ session # None /\ session[1].status = "error"
    /\ session[1].variables # EmptyBag

\* C26: handleEvent makes highlightedNodeId the payload's node id on
\* node_entered and breakpoint_hit, null on session_completed, and leaves it
\* alone on every other event type.
C26_HighlightReducer ==
    [][\A e \in ReducerEvents :
          handleEventCalled(e) =>
              highlightedNodeId' =
                  CASE e.type \in {"node_entered", "breakpoint_hit"} -> e.payload.node_id
                    [] e.type = "session_completed" -> NULL
                    [] OTHER -> highlightedNodeId]_vars

\* C26 happens: the node entered is still highlighted after its node_exited
\* event has been handled.
C26_Witness ==
    /\ op.name = "handleEvent" /\ op.result = "node_exited"
    /\ Len(events) = 2
    /\ events[1].type = "node_entered"
    /\ highlightedNodeId = events[1].payload.node_id
    /\ highlightedNodeId # NULL

\* C27: with a session present, a variable_changed event for key k and value v
\* makes variables[k] = v, keeps every other variable and every other field of
\* the session; an event of any other type leaves variables as it was.
C27_VariableMerge ==
    [][\A e \in ReducerEvents :
          (handleEventCalled(e) /\ session # None) =>
              /\ session' # None
              /\ IF e.type = "variable_changed"
                 THEN LET old == session[1].variables
                          new == session'[1].variables
                      IN  /\ DOMAIN new = DOMAIN old \cup {e.payload.key}
                          /\ new[e.payload.key] = e.payload.value
                          /\ \A k \in DOMAIN old : k # e.payload.key => new[k] = old[k]
                          /\ [session'[1] EXCEPT !.variables = old] = session[1]
                 ELSE session'[1].variables = session[1].variables]_vars

\* C27 happens: two variable_changed events for x have been handled; x holds
\* the later value and the variable z the session had is still there.
C27_Witness ==
    /\ op.name = "handleEvent" /\ op.hit
    /\ Len(events) = 2
    /\ events[1] = VarEvent("s-1", "x", "1") /\ events[2] = VarEvent("s-1", "x", "2")
    /\ session # None
    /\ DOMAIN session[1].variables = {"x", "z"}
    /\ session[1].variables["x"] = "2" /\ session[1].variables["z"] = "9"

\* C28: continue() and pause() leave the session as it is when they are
\* called; when the backend acknowledges, the status of the session present
\* becomes 'running' (continue) or 'paused' (pause) and nothing else of it
\* changes; when the call fails the session stays as it was, error becomes the
\* failure message and the failure is re-raised.
C28_StatusAfterAcknowledgment ==
    [][/\ (continue \/ pause) => (session' = session /\ derror' = derror)
       /\ \A i \in 1..MaxPending :
            /\ (continueResolved(i) /\ session # None) =>
                  /\ session' = Some([session[1] EXCEPT !.status = "running"])
                  /\ op'.result = "returned" /\ derror' = derror
            /\ (pauseResolved(i) /\ session # None) =>
                  /\ session' = Some([session[1] EXCEPT !.status = "paused"])
                  /\ op'.result = "returned" /\ derror' = derror
            /\ (continueRejected(i) \/ pauseRejected(i)) =>
                  /\ session' = session
                  /\ derror' = requests[i].msg /\ derror' # NULL
                  /\ op'.result = "thrown"]_vars

\* C28 happens: continue() has just been acknowledged and the session, paused
\* until then, is running, with no event handled.
C28_Witness ==
    /\ op.name = "continue" /\ op.result = "returned"
    /\ session # None /\ session[1].status = "running"
    /\ events = <<>>

\* C29: called while session is null, each of step, continue, pause, stop,
\* addBreakpoint, removeBreakpoint, toggleBreakpoint, getVariables,
\* setVariable and loadTimeline sends no backend request, changes no field of
\* either store and returns its empty result: null for step, {} for
\* getVariables, [] for loadTimeline, nothing for the others.
C29_NoSessionNoOp ==
    [][(/\ session = None
        /\ \/ step \/ continue \/ pause \/ stop
           \/ getVariables \/ loadTimeline \/ setVariable("x", "1")
           \/ \E a \in BreakpointArgs : addBreakpoint(a[1], a[2])
           \/ removeBreakpoint(NodePath[1])
           \/ toggleBreakpoint(NodePath[1])) =>
          /\ requests' = requests
          /\ UNCHANGED <<nodes, edges, selectedNodeId, selectedEdgeId, design, designId,
                         templates, loading, saving, error>>
          /\ UNCHANGED <<session, ws, events, highlightedNodeId, dloading, derror, sockets>>
          /\ op'.result = "returned"
          /\ op'.value = CASE op'.name = "step" -> NULL
                           [] op'.name = "getVariables" -> "{}"
                           [] op'.name = "loadTimeline" -> "[]"
                           [] OTHER -> UNDEF]_vars

\* C29 happens: setVariable has just returned for want of a session, while a
\* call made on the session that was there is in flight and the error of an
\* earlier failure is still set.
C29_Witness ==
    /\ op.name = "setVariable" /\ ~op.hit /\ op.result = "returned"
    /\ session = None
    /\ requests # <<>>
    /\ derror # NULL

\* C30: when createDraft or loadDraft succeeds, design becomes the fetched
\* document, designId its id (createDraft) or the id asked for (loadDraft),
\* nodes and edges the document's nodes and edges in order, and loading false,
\* all in one step; when it fails, nodes, edges, design and designId stay as
\* they were, loading becomes false, error the failure message and the
\* failure is re-raised.
C30_LoadIsAtomic ==
    [][\A i \in 1..MaxPending :
          /\ (createDraftResolved(i) \/ loadDraftResolved(i)) =>
                LET d == requests[i].data[1]
                IN  /\ design' = Some(d)
                    /\ designId' = IF requests[i].kind = "createDraft" THEN d.id
                                    ELSE requests[i].sid
                    /\ Len(nodes') = Len(d.nodes)
                    /\ \A j \in 1..Len(d.nodes) :
                          /\ nodes'[j].id = d.nodes[j].id
                          /\ nodes'[j].type = d.nodes[j].type
                          /\ nodes'[j].position = d.nodes[j].position
                          /\ nodes'[j].data.label = d.nodes[j].name
                    /\ Len(edges') = Len(d.edges)
                    /\ \A j \in 1..Len(d.edges) :
                          /\ edges'[j].id = d.edges[j].id
                          /\ edges'[j].source = d.edges[j].source
                          /\ edges'[j].target = d.edges[j].target
                    /\ loading' = FALSE
                    /\ op'.result = "returned"
          /\ (createDraftRejected(i) \/ loadDraftRejected(i)) =>
                /\ UNCHANGED <<nodes, edges, design, designId>>
                /\ loading' = FALSE
                /\ error' = requests[i].msg /\ error' # NULL
                /\ op'.result = "thrown"]_vars

\* C30 happens: a loadDraft has just failed on a store that holds a loaded
\* draft with a node added since, and the graph and the document are still
\* there.
C30_Witness ==
    /\ op.name = "loadDraft" /\ op.result = "thrown"
    /\ design # None /\ designId = "d-1"
    /\ Len(nodes) > Len(design[1].nodes)
    /\ error # NULL /\ ~loading

\* C31: saveDraft() with no designId sends nothing and changes nothing; with
\* one it sends the current render graph converted to document shape (one
\* element per node and per edge, in order) under that id and sets saving,
\* which stays set while the request is out; on success design becomes the
\* response, on failure design is kept, error is set and the failure is
\* re-raised; either way saving ends false and nodes and edges are as before.
C31_SaveDraft ==
    [][/\ (saveDraft /\ designId = NULL) =>
              (UNCHANGED <<designerVars, requests>> /\ op'.result = "returned")
       /\ (saveDraft /\ designId # NULL) =>
              LET r == requests'[Len(requests')]
              IN  /\ Len(requests') = Len(requests) + 1
                  /\ r.kind = "updateDraft" /\ r.sid = designId
                  /\ Len(r.payload[1].nodes) = Len(nodes)
                  /\ \A j \in 1..Len(nodes) :
                        /\ r.payload[1].nodes[j].id = nodes[j].id
                        /\ r.payload[1].nodes[j].type = nodes[j].type
                        /\ r.payload[1].nodes[j].name = nodes[j].data.label
                  /\ Len(r.payload[1].edges) = Len(edges)
                  /\ \A j \in 1..Len(edges) :
                        /\ r.payload[1].edges[j].id = edges[j].id
                        /\ r.payload[1].edges[j].source = edges[j].source
                        /\ r.payload[1].edges[j].target = edges[j].target
                  /\ saving'
                  /\ UNCHANGED <<nodes, edges, design, designId>>
       /\ (saving /\ \E i \in 1..Len(requests') : requests'[i].kind = "updateDraft") =>
              saving'
       /\ \A i \in 1..MaxPending :
              /\ saveDraftResolved(i) =>
                    /\ design' = requests[i].data
                    /\ ~saving' /\ op'.result = "returned"
                    /\ UNCHANGED <<nodes, edges, designId, error>>
              /\ saveDraftRejected(i) =>
                    /\ ~saving' /\ op'.result = "thrown"
                    /\ error' = requests[i].msg /\ error' # NULL
                    /\ UNCHANGED <<nodes, edges, design, designId>>]_vars

\* C31 happens: a save of a loaded draft with a node added since has just
\* failed; the document and the graph are kept, saving is down, error is set.
C31_Witness ==
    /\ op.name = "saveDraft" /\ op.result = "thrown"
    /\ design # None /\ Len(nodes) > Len(design[1].nodes)
    /\ ~saving /\ error # NULL

\* C32: for every DesignerEdge e, toFlowEdge followed by the conversion of
\* toDesignerEdges gives back e's id, source, target, sourcePort, targetPort,
\* label, condition and priority. The edges are those of the document the
\* backend returned; the body of a save holds them converted back.
C32_EdgeRoundTrip ==
    \A i \in 1..Len(requests) :
        (requests[i].kind = "updateDraft" /\ design # None
           /\ edges = [j \in 1..Len(design[1].edges) |-> toFlowEdge(design[1].edges[j])]) =>
            \A j \in 1..Len(design[1].edges) :
                LET e == design[1].edges[j]
                    b == requests[i].payload[1].edges[j]
                IN  /\ b.id = e.id /\ b.source = e.source /\ b.target = e.target
                    /\ b.sourcePort = e.sourcePort /\ b.targetPort = e.targetPort
                    /\ b.label = e.label
                    /\ b.condition = e.condition /\ b.priority = e.priority

\* C33: assignTag and removeTag send their own request first and write no
\* tags; the reload of that user's tags is sent only once that request has
\* succeeded, and not at all when it failed (the failure is re-raised with
\* userTags as before); userTags changes only when a reload resolves, the
\* entry of the reloaded user becoming exactly the fetched list and every
\* other user's entry staying as it was.
C33_TagsReloaded ==
    [][/\ \A u \in TagUsers :
              (assignTag(u) \/ removeTag(u)) =>
                  /\ requests'[Len(requests')].kind \in {"assignUserTag", "removeUserTag"}
                  /\ requests'[Len(requests')].sid = u
                  /\ Len(requests') = Len(requests) + 1
       /\ \A i \in 1..MaxPending :
              /\ tagChangeResolved(i) =>
                    /\ requests[i].phase = "ok"
                    /\ requests'[i].kind = "getUserTags" /\ requests'[i].phase = "sent"
                    /\ requests'[i].sid = requests[i].sid
                    /\ Len(requests') = Len(requests)
              /\ tagChangeRejected(i) =>
                    /\ Len(requests') = Len(requests) - 1
                    /\ \A j \in 1..Len(requests') :
                          requests'[j].kind = "getUserTags" =>
                              \E k \in 1..Len(requests) : requests[k] = requests'[j]
                    /\ op'.result = "thrown"
                    /\ tagStore'.error = requests[i].msg /\ tagStore'.error # NULL
       /\ \A j \in 1..Len(requests') :
              (requests'[j].kind = "getUserTags" /\ requests'[j].caller # "loadUserTags"
                 /\ requests'[j].phase = "sent"
                 /\ ~\E k \in 1..Len(requests) : requests[k] = requests'[j]) =>
                  \E k \in 1..Len(requests) :
                      /\ requests[k].kind \in {"assignUserTag", "removeUserTag"}
                      /\ requests[k].phase = "ok"
                      /\ requests[k].sid = requests'[j].sid
       /\ tagStore'.userTags # tagStore.userTags =>
              \E i \in 1..Len(requests) :
                  /\ requests[i].kind = "getUserTags" /\ requests[i].phase = "ok"
                  /\ requests' = RemoveAt(requests, i)
                  /\ DOMAIN tagStore'.userTags = DOMAIN tagStore.userTags \cup {requests[i].sid}
                  /\ tagStore'.userTags[requests[i].sid] = requests[i].data[1]
                  /\ \A v \in DOMAIN tagStore.userTags \ {requests[i].sid} :
                        tagStore'.userTags[v] = tagStore.userTags[v]]_vars

\* C33 happens: an assignTag has returned after its reload, and the cache
\* holds different tag lists for the two users, the reloaded user's entry
\* having been replaced by a shorter list.
C33_Witness ==
    /\ op.name = "assignTag" /\ op.result = "returned"
    /\ DOMAIN tagStore.userTags = TagUsers
    /\ tagStore.userTags[1] = <<>> /\ tagStore.userTags[2] = <<"grade", "role">>
    /\ tagStore.error = NULL

\* C34: when a setVariable(k2, v) request completes and the last event
\* handled was a variable_changed for another key k1, the variables hold
\* that event's value for k1 and v for k2; when it was for the same key, the
\* response, being last, determines the value.
C34_NoLostVariableUpdate ==
    [][\A i \in 1..MaxPending :
          (/\ setVariableResolved(i)
           /\ events # <<>>
           /\ events[Len(events)].type = "variable_changed") =>
              LET e == events[Len(events)].payload
                  held == session'[1].variables
              IN  /\ requests[i].key \in DOMAIN held
                  /\ held[requests[i].key] = requests[i].value
                  /\ e.key # requests[i].key =>
                        (e.key \in DOMAIN held /\ held[e.key] = e.value)]_vars

\* C35: the completion of an addBreakpoint or removeBreakpoint changes the
\* entry of its own node only: what another command has done to another
\* node's entry since the call was made (added, removed or toggled it) is
\* still there afterwards.
C35_NoLostBreakpointUpdate ==
    [][\A i \in 1..MaxPending :
          (addBreakpointResolved(i) \/ removeBreakpointResolved(i)) =>
              \A k \in 1..Len(NodePath) :
                  LET n == NodePath[k]
                      before == session[1].breakpoints
                      after == session'[1].breakpoints
                  IN  n # requests[i].nodeId =>
                          /\ n \in DOMAIN before <=> n \in DOMAIN after
                          /\ n \in DOMAIN before => after[n] = before[n]]_vars

\* C36: once stop() has succeeded and session is null, the completion of a
\* step, continue or getVariables call made before the stop, with either
\* outcome, leaves session null and highlightedNodeId null.
C36_StoppedStaysStopped ==
    [][\A i \in 1..MaxPending + 1 :
          (/\ session = None
           /\ \/ stepResolved(i) \/ continueResolved(i) \/ getVariablesResolved(i)
              \/ \E kind \in {"step", "continue", "getVariables"} :
                    commandRejected(i, kind)) =>
              (session' = None /\ highlightedNodeId' = NULL)]_vars

\* C37: whenever an event-channel socket is open, the ws field refers to it
\* (so the next disconnect() closes it), also after the close notification
\* of a socket closed earlier has been delivered.
C37_WsTracksOpenChannel == \A k \in OpenSockets : ws = k

\* C38: handleEvent called with no session, or with an event whose sessionId
\* is not the id of the session held, appends the event to the log and
\* leaves the session and highlightedNodeId as they were.
C38_EventsOfOwnSession ==
    [][\A e \in ForeignEvents :
          (/\ handleEventCalled(e)
           /\ (session = None \/ e.sessionId # session[1].id)) =>
              /\ events' = Append(events, e)
              /\ session' = session
              /\ highlightedNodeId' = highlightedNodeId]_vars

\* C39: in every reachable state of the designer store design is null
\* exactly when designId is null, and when both are set design.id is
\* designId.
C39_DocumentIdentity ==
    /\ design = None <=> designId = NULL
    /\ (design # None /\ designId # NULL) => design[1].id = designId

\* C40: when only elements present in the graph are ever selected, after any
\* sequence of selectNode, selectEdge, deleteNode and deleteEdge a non-null
\* selectedNodeId is the id of a node in nodes and a non-null selectedEdgeId
\* is the id of an edge in edges.
C40_NoDanglingSelection ==
    /\ selectedNodeId # NULL => selectedNodeId \in NodeIds
    /\ selectedEdgeId # NULL => selectedEdgeId \in EdgeIds

====
